---- MODULE Spec2Model ----
(***************************************************************************)
(* Model of the Zotero citation integration of the editor:                 *)
(*   - the Citation node and its markdown-it rule (parseCitations),        *)
(*   - the label formatter / rewriter of the citation search dialog,       *)
(*   - the mode converter and the bibliography commands of ZoteroExtension.*)
(* Strings are sequences of one-character strings, so that the regular     *)
(* expressions and the split/join replacements of the source are computed  *)
(* character by character.                                                 *)
(***************************************************************************)
EXTENDS Integers, Sequences, FiniteSets, Bags, TLC

VARIABLES
    (* --- pure-function harness (tokenizer, converter, rewriter) --- *)
    pc,         \* position of the running harness / handler
    children,   \* blockTok.children : the inline token stream being rewritten
    j,          \* loop index of parseCitations (0-based, as in the source)
    newChildren,\* the output stream under construction
    record,     \* a citation record (node attrs) under test
    input,      \* the input text / item of a pure function under test
    output,     \* the result(s) of the function under test
    (* --- editor --- *)
    doc,        \* view.state.doc : the document tree
    sel,        \* view.state.selection (a cursor: from = to)
    extState,   \* ZoteroExtension.state (style, locale)
    inflight,   \* bibliography requests awaiting their response
    lastOp,     \* the last transaction dispatched by a bibliography response
    origin      \* per inserted citation key: the item/locale it was formatted from

vars == <<pc, children, j, newChildren, record, input, output,
          doc, sel, extState, inflight, lastOp, origin>>

(***************************************************************************)
(* Characters and character classes of the regular expressions.            *)
(***************************************************************************)
Digits == {"0", "1", "2", "3", "4", "5", "6", "7", "8", "9"}

\* \s of a JavaScript regular expression (the members the model uses)
WhiteSpace == {" ", "\t", "\n"}

\* characters `.` does not match (line terminators)
LineTerminators == {"\n"}

Upper == {"A", "B", "C", "D", "E", "F", "G", "H", "I", "J", "K", "L", "M",
          "N", "O", "P", "Q", "R", "S", "T", "U", "V", "W", "X", "Y", "Z"}

Lower == {"a", "b", "c", "d", "e", "f", "g", "h", "i", "j", "k", "l", "m",
          "n", "o", "p", "q", "r", "s", "t", "u", "v", "w", "x", "y", "z"}

\* [A-Z0-9] under the i flag
AlphaNum == Upper \cup Lower \cup Digits

IsDigit(c) == c \in Digits

IsSpace(c) == c \in WhiteSpace

\* s[a..b] as a sequence (empty when a > b)
Slice(s, a, b) == IF a > b THEN <<>> ELSE SubSeq(s, a, b)

AllIn(s, a, b, S) == \A i \in a..b : s[i] \in S

\* `.` of a regular expression matches every character of s[a..b]
NoLineBreak(s, a, b) == \A i \in a..b : s[i] \notin LineTerminators

\* String.prototype.toLowerCase on one character
ToLowerChar(c) ==
    IF c \in Upper
    THEN CHOOSE l \in Lower :
           \E i \in 1..26 :
             /\ <<"A","B","C","D","E","F","G","H","I","J","K","L","M",
                  "N","O","P","Q","R","S","T","U","V","W","X","Y","Z">>[i] = c
             /\ <<"a","b","c","d","e","f","g","h","i","j","k","l","m",
                  "n","o","p","q","r","s","t","u","v","w","x","y","z">>[i] = l
    ELSE c

ToLower(s) == [i \in 1..Len(s) |-> ToLowerChar(s[i])]

RECURSIVE Concat(_)
\* Array.prototype.join("") over a sequence of strings
Concat(ss) == IF ss = <<>> THEN <<>> ELSE Head(ss) \o Concat(Tail(ss))

(***************************************************************************)
(* Citation modes and the narrative-suffix heuristic.                      *)
(***************************************************************************)
CitationModes == {"parenthetical", "narrative"}

NarrativeSuffixUnanchored(text) ==
    \E i \in 1..Len(text) :
       /\ i + 6 <= Len(text)
       /\ IsSpace(text[i])
       /\ text[i + 1] = "("
       /\ AllIn(text, i + 2, i + 5, Digits)
       /\ text[i + 6] = ")"

\* /\s\(\d{4}\)\s*$/.test(text)
NarrativeSuffix(text) ==
    \E i \in 1..Len(text) :
       /\ i + 6 <= Len(text)
       /\ IsSpace(text[i])
       /\ text[i + 1] = "("
       /\ AllIn(text, i + 2, i + 5, Digits)
       /\ text[i + 6] = ")"
       /\ AllIn(text, i + 7, Len(text), WhiteSpace)

(***************************************************************************)
(* convertTextBetweenModes (ZoteroExtension.tsx)                           *)
(***************************************************************************)
\* a pattern whose dot would also match line breaks
ParenCommaPositionsDotAll(text) ==
    LET n == Len(text) IN
    {k \in 2..(n - 4) :
        /\ text[k] = ","
        /\ AllIn(text, k + 1, n - 4, WhiteSpace)
        /\ AllIn(text, n - 3, n, Digits)}

\* /^(.+),\s*(\d{4})$/ : the positions k of the comma in a successful match
ParenCommaPositions(text) ==
    LET n == Len(text) IN
    {k \in 2..(n - 4) :
        /\ text[k] = ","
        /\ NoLineBreak(text, 1, k - 1)
        /\ AllIn(text, k + 1, n - 4, WhiteSpace)
        /\ AllIn(text, n - 3, n, Digits)}

ParenMatches(text) == ParenCommaPositions(text) # {}

\* (.+) is greedy: the match with the longest first group
ParenAuthor(text) ==
    LET k == CHOOSE k \in ParenCommaPositions(text) :
                 \A m \in ParenCommaPositions(text) : m <= k
    IN Slice(text, 1, k - 1)

\* /^(.+?)\s+\((\d{4})\)$/ : the lengths a of the first group in a match
NarrAuthorLengths(text) ==
    LET n == Len(text) IN
    {a \in 1..(n - 7) :
        /\ NoLineBreak(text, 1, a)
        /\ AllIn(text, a + 1, n - 6, WhiteSpace)
        /\ text[n - 5] = "("
        /\ AllIn(text, n - 4, n - 1, Digits)
        /\ text[n] = ")"}

NarrMatches(text) == NarrAuthorLengths(text) # {}

\* (.+?) is lazy: the match with the shortest first group
NarrAuthor(text) ==
    LET a == CHOOSE a \in NarrAuthorLengths(text) :
                 \A m \in NarrAuthorLengths(text) : a <= m
    IN Slice(text, 1, a)

LastFour(text) == Slice(text, Len(text) - 3, Len(text))

\* whether the pattern the conversion fromMode -> toMode looks for is found
ConvertMatches(text, fromMode, toMode) ==
    /\ fromMode # toMode
    /\ IF fromMode = "parenthetical" /\ toMode = "narrative"
       THEN ParenMatches(text)
       ELSE NarrMatches(text)

convertTextWithoutBlank(text, fromMode, toMode) ==
    IF fromMode = toMode THEN text
    ELSE IF fromMode = "parenthetical" /\ toMode = "narrative"
    THEN IF ParenMatches(text)
         THEN ParenAuthor(text) \o <<"(">> \o LastFour(text) \o <<")">>
         ELSE text
    ELSE IF NarrMatches(text)
         THEN NarrAuthor(text) \o <<",", " ">>
                 \o Slice(text, Len(text) - 4, Len(text) - 1)
         ELSE text

\* a converter that would not look at the target mode
convertTextAnyTarget(text, fromMode, toMode) ==
    IF fromMode = "parenthetical"
    THEN IF ParenMatches(text)
         THEN ParenAuthor(text) \o <<" ", "(">> \o LastFour(text) \o <<")">>
         ELSE text
    ELSE IF NarrMatches(text)
         THEN NarrAuthor(text) \o <<",", " ">>
                 \o Slice(text, Len(text) - 4, Len(text) - 1)
         ELSE text

\* a converter that would set the year off with a space only
convertTextWithoutComma(text, fromMode, toMode) ==
    IF fromMode = toMode THEN text
    ELSE IF fromMode = "parenthetical" /\ toMode = "narrative"
    THEN IF ParenMatches(text)
         THEN ParenAuthor(text) \o <<" ", "(">> \o LastFour(text) \o <<")">>
         ELSE text
    ELSE IF NarrMatches(text)
         THEN NarrAuthor(text) \o <<" ">>
                 \o Slice(text, Len(text) - 4, Len(text) - 1)
         ELSE text

convertTextBetweenModes(text, fromMode, toMode) ==
    IF fromMode = toMode THEN text
    ELSE IF fromMode = "parenthetical" /\ toMode = "narrative"
    THEN IF ParenMatches(text)
         THEN ParenAuthor(text) \o <<" ", "(">> \o LastFour(text) \o <<")">>
         ELSE text
    ELSE IF NarrMatches(text)
         THEN NarrAuthor(text) \o <<",", " ">>
                 \o Slice(text, Len(text) - 4, Len(text) - 1)
         ELSE text

(***************************************************************************)
(* Locale terms (CitationSearch.tsx)                                       *)
(***************************************************************************)
\* a missing (undefined / null) string value
Undefined == <<"undefined">>

\* the letter s with comma below (U+0219) of the Romanian conjunction
SComma == "s-comma-below"

EtAlLatin == <<"e", "t", " ", "a", "l", ".">>
EtAlHu == <<"é", "s", " ", "m", "t", "s", "a", "i", ".">>
EtAlPl == <<"i", " ", "i", "n", ".">>
EtAlFi == <<"y", "m", ".">>
EtAlHr == <<"i", " ", "s", "u", "r", ".">>

DEFAULT_TERMS == [etAl |-> EtAlLatin, and |-> <<"&">>]

\* the languages of LOCALE_TERMS, in the order of the object literal
LocaleLangs ==
    << <<"h", "u">>, <<"p", "l">>, <<"n", "l">>, <<"d", "e">>, <<"f", "r">>,
       <<"e", "s">>, <<"p", "t">>, <<"i", "t">>, <<"s", "v">>, <<"f", "i">>,
       <<"r", "o">>, <<"c", "s">>, <<"s", "k">>, <<"h", "r">> >>

LOCALE_TERMS ==
    << [etAl |-> EtAlHu,    and |-> <<"é", "s">>],
       [etAl |-> EtAlPl,    and |-> <<"i">>],
       [etAl |-> EtAlLatin, and |-> <<"e", "n">>],
       [etAl |-> EtAlLatin, and |-> <<"&">>],
       [etAl |-> EtAlLatin, and |-> <<"&">>],
       [etAl |-> EtAlLatin, and |-> <<"y">>],
       [etAl |-> EtAlLatin, and |-> <<"e">>],
       [etAl |-> EtAlLatin, and |-> <<"e">>],
       [etAl |-> EtAlLatin, and |-> <<"&">>],
       [etAl |-> EtAlFi,    and |-> <<"j", "a">>],
       [etAl |-> EtAlLatin, and |-> <<SComma, "i">>],
       [etAl |-> EtAlLatin, and |-> <<"a">>],
       [etAl |-> EtAlLatin, and |-> <<"a">>],
       [etAl |-> EtAlHr,    and |-> <<"i">>] >>

\* locale.split("-")[0]
BeforeHyphen(locale) ==
    IF \E i \in 1..Len(locale) : locale[i] = "-"
    THEN LET h == CHOOSE i \in 1..Len(locale) :
                     /\ locale[i] = "-"
                     /\ \A m \in 1..(i - 1) : locale[m] # "-"
         IN Slice(locale, 1, h - 1)
    ELSE locale

\* the value null
JsNull == <<"null">>

\* the lower-case property names an object literal inherits from
\* Object.prototype: LOCALE_TERMS[name] is defined for them
ObjectPrototypeKeys ==
    { <<"c", "o", "n", "s", "t", "r", "u", "c", "t", "o", "r">>,
      <<"_", "_", "p", "r", "o", "t", "o", "_", "_">> }

\* the inherited value: the function Object, or the object Object.prototype
InheritedProperty(name) == [inherited |-> name]

\* a lookup that would fall back to the default also for the known languages
getLocaleTermsDefaultOnly(locale) == DEFAULT_TERMS

getLocaleTerms(locale) ==
    IF locale = Undefined \/ locale = JsNull \/ locale = <<>>
    THEN DEFAULT_TERMS
    ELSE LET lang == ToLower(BeforeHyphen(locale)) IN
         IF \E i \in 1..Len(LocaleLangs) : LocaleLangs[i] = lang
         THEN LOCALE_TERMS[CHOOSE i \in 1..Len(LocaleLangs) : LocaleLangs[i] = lang]
         ELSE IF lang \in ObjectPrototypeKeys
         THEN InheritedProperty(lang)
         ELSE DEFAULT_TERMS

RECURSIVE Dedup(_)
\* [...new Set(xs)] : first occurrences, in order
Dedup(xs) ==
    IF xs = <<>> THEN <<>>
    ELSE LET front == Dedup(Slice(xs, 1, Len(xs) - 1))
             last == xs[Len(xs)]
         IN IF \E i \in 1..Len(front) : front[i] = last
            THEN front ELSE Append(front, last)

ALL_ET_AL_TERMS ==
    Dedup(<<DEFAULT_TERMS.etAl>> \o [i \in 1..Len(LOCALE_TERMS) |-> LOCALE_TERMS[i].etAl])

ALL_AND_TERMS ==
    Dedup(<<DEFAULT_TERMS.and>> \o [i \in 1..Len(LOCALE_TERMS) |-> LOCALE_TERMS[i].and])

(***************************************************************************)
(* Label formatter (CitationSearch.tsx)                                    *)
(* An item is [key, creators, date, title]; a creator is                   *)
(* [lastName, name, creatorType]; a missing string field is Undefined, and  *)
(* missing creators are the empty list the source puts in their place.     *)
(***************************************************************************)
\* a ?? b
Coalesce(a, b) == IF a = Undefined THEN b ELSE a

\* the creators buildAuthorPart and firstAuthorLastName keep
AuthorsOf(item) ==
    LET creators == item.creators IN
    SelectSeq(creators,
              LAMBDA c : c.creatorType = "author" \/ Len(creators) = 1)

buildAuthorPart(item, terms) ==
    LET authors == AuthorsOf(item)
        nameOf(c) == Coalesce(c.lastName, Coalesce(c.name, <<>>))
    IN IF Len(authors) = 0
       THEN <<"U","n","k","n","o","w","n"," ","A","u","t","h","o","r">>
       ELSE IF Len(authors) = 1 THEN nameOf(authors[1])
       ELSE IF Len(authors) = 2
       THEN nameOf(authors[1]) \o <<" ">> \o terms.and \o <<" ">> \o nameOf(authors[2])
       ELSE nameOf(authors[1]) \o <<" ">> \o terms.etAl

\* the sign of Date.prototype.getTimezoneOffset() of the browser:
\* "west" is local time behind UTC, "east" is UTC or ahead of it
TimeZones == {"east", "west"}

DigitValue(c) ==
    CHOOSE v \in 0..9 : <<"0","1","2","3","4","5","6","7","8","9">>[v + 1] = c

RECURSIVE StrToNat(_)
StrToNat(s) ==
    IF s = <<>> THEN 0
    ELSE 10 * StrToNat(Slice(s, 1, Len(s) - 1)) + DigitValue(s[Len(s)])

RECURSIVE NatToStr(_)
\* String(n) for a natural number
NatToStr(n) ==
    IF n < 10 THEN << <<"0","1","2","3","4","5","6","7","8","9">>[n + 1] >>
    ELSE NatToStr(n \div 10) \o << <<"0","1","2","3","4","5","6","7","8","9">>[(n % 10) + 1] >>

\* not-a-number
NaN == -1

\* new Date(date).getFullYear() for the date strings of the model: the ISO
\* date-only forms "YYYY" and "YYYY-MM-DD" denote midnight UTC, and
\* getFullYear() reads the local year; any other string here is an Invalid Date
DateFullYear(date, tz) ==
    LET yearOnly == Len(date) = 4 /\ AllIn(date, 1, 4, Digits)
        dateOnly == /\ Len(date) = 10
                    /\ AllIn(date, 1, 4, Digits)
                    /\ date[5] = "-" /\ AllIn(date, 6, 7, Digits)
                    /\ date[8] = "-" /\ AllIn(date, 9, 10, Digits)
        newYear == yearOnly \/ (dateOnly /\ Slice(date, 6, 10) = <<"0","1","-","0","1">>)
        y == StrToNat(Slice(date, 1, 4))
    IN IF ~(yearOnly \/ dateOnly) THEN NaN
       ELSE IF newYear /\ tz = "west" /\ y > 0 THEN y - 1
       ELSE y

buildYearPart(item, tz) ==
    IF item.date = Undefined \/ item.date = <<>> THEN <<>>
    ELSE LET fy == DateFullYear(item.date, tz)
             str == IF fy = NaN \/ fy = 0 THEN <<>> ELSE NatToStr(fy)
         IN IF str # <<>> THEN str
            ELSE Slice(item.date, 1, IF Len(item.date) < 4 THEN Len(item.date) ELSE 4)

\* a formatter that would put the parenthetical label in parentheses itself
formatCitationLabelInParens(item, mode, locale, tz) ==
    LET terms == getLocaleTerms(locale)
        author == buildAuthorPart(item, terms)
        year == buildYearPart(item, tz)
    IN IF mode = "narrative"
       THEN IF year # <<>> THEN author \o <<" ", "(">> \o year \o <<")">> ELSE author
       ELSE IF year # <<>> THEN <<"(">> \o author \o <<",", " ">> \o year \o <<")">>
            ELSE author

formatCitationLabel(item, mode, locale, tz) ==
    LET terms == getLocaleTerms(locale)
        author == buildAuthorPart(item, terms)
        year == buildYearPart(item, tz)
    IN IF mode = "narrative"
       THEN IF year # <<>> THEN author \o <<" ", "(">> \o year \o <<")">> ELSE author
       ELSE IF year # <<>> THEN author \o <<",", " ">> \o year ELSE author

(***************************************************************************)
(* Label rewriter (CitationSearch.tsx)                                     *)
(***************************************************************************)
RECURSIVE ReplaceAll(_, _, _)
\* s.split(old).join(new) : every non-overlapping occurrence, left to right
ReplaceAll(s, old, new) ==
    IF Len(s) < Len(old) THEN s
    ELSE IF SubSeq(s, 1, Len(old)) = old
    THEN new \o ReplaceAll(Slice(s, Len(old) + 1, Len(s)), old, new)
    ELSE <<s[1]>> \o ReplaceAll(Tail(s), old, new)

RECURSIVE RewriteEtAl(_, _, _)
\* the first loop, from the i-th term of ALL_ET_AL_TERMS on
RewriteEtAl(result, newTerms, i) ==
    IF i > Len(ALL_ET_AL_TERMS) THEN result
    ELSE LET old == ALL_ET_AL_TERMS[i] IN
         RewriteEtAl(IF old # newTerms.etAl
                     THEN ReplaceAll(result, old, newTerms.etAl)
                     ELSE result,
                     newTerms, i + 1)

RECURSIVE RewriteAnd(_, _, _)
\* the second loop, from the i-th term of ALL_AND_TERMS on
RewriteAnd(result, newTerms, i) ==
    IF i > Len(ALL_AND_TERMS) THEN result
    ELSE LET old == ALL_AND_TERMS[i] IN
         RewriteAnd(IF old # newTerms.and
                    THEN ReplaceAll(result, <<" ">> \o old \o <<" ">>,
                                    <<" ">> \o newTerms.and \o <<" ">>)
                    ELSE result,
                    newTerms, i + 1)

rewriteCitationText(text, newLocale) ==
    LET newTerms == getLocaleTerms(newLocale) IN
    RewriteAnd(RewriteEtAl(text, newTerms, 1), newTerms, 1)

(***************************************************************************)
(* Citation node: toMarkdown, and the markdown-it rule parseCitations      *)
(***************************************************************************)
ZoteroScheme == <<"z", "o", "t", "e", "r", "o", ":", "/", "/">>

\* a pattern without the anchors ^ and $
ZoteroMatchesUnanchored(href) ==
    \E s \in 1..Len(href) :
       /\ s + Len(ZoteroScheme) <= Len(href)
       /\ ToLower(Slice(href, s, s + Len(ZoteroScheme) - 1)) = ZoteroScheme
       /\ href[s + Len(ZoteroScheme)] \in AlphaNum

\* ZOTERO_RE = /^zotero:\/\/([A-Z0-9]+)$/i
ZoteroMatches(href) ==
    /\ Len(href) > Len(ZoteroScheme)
    /\ ToLower(Slice(href, 1, Len(ZoteroScheme))) = ZoteroScheme
    /\ AllIn(href, Len(ZoteroScheme) + 1, Len(href), AlphaNum)

\* match[1]
ZoteroKey(href) == Slice(href, Len(ZoteroScheme) + 1, Len(href))

LabelOfTextOnly(attrs) == attrs.text

\* node.attrs.text || node.attrs.key
LabelOf(attrs) == IF attrs.text # <<>> THEN attrs.text ELSE attrs.key

\* a serializer that would write the title as the link's title
toMarkdownWithTitle(attrs) ==
    <<"[">> \o LabelOf(attrs) \o <<"]", "(">> \o ZoteroScheme \o attrs.key
        \o (IF attrs.title = <<>> THEN <<>> ELSE <<" ", "\"">> \o attrs.title \o <<"\"">>)
        \o <<")">>

\* Citation.toMarkdown: the string written to the serializer
toMarkdown(attrs) ==
    <<"[">> \o LabelOf(attrs) \o <<"]", "(">> \o ZoteroScheme \o attrs.key \o <<")">>

LinkOpen(href) == [type |-> "link_open", href |-> href]
TextTok(content) == [type |-> "text", content |-> content]
LinkClose == [type |-> "link_close"]
OtherTok == [type |-> "softbreak"]

\* markdown-it's inline parse of one link "[label](href)" whose label is plain
\* text: link_open, one text token (none for an empty label), link_close
MdInlineLink(src) ==
    LET close == CHOOSE i \in 1..Len(src) :
                    /\ src[i] = "]" /\ src[i + 1] = "("
                    /\ \A m \in 1..(i - 1) : src[m] # "]"
        label == Slice(src, 2, close - 1)
        href == Slice(src, close + 2, Len(src) - 1)
    IN <<LinkOpen(href)>>
         \o (IF label = <<>> THEN <<>> ELSE <<TextTok(label)>>)
         \o <<LinkClose>>

\* a tokenizer that would take every link for a parenthetical citation
CitationTokenParenthetical(key, text) ==
    [type |-> "citation", key |-> key, text |-> text, title |-> <<>>,
     mode |-> "parenthetical"]

\* the citation token parseCitations builds (lines 171-183)
CitationToken(key, text) ==
    [type |-> "citation", key |-> key, text |-> text, title |-> <<>>,
     mode |-> IF NarrativeSuffix(text) THEN "narrative" ELSE "parenthetical"]

\* children[j] with the 0-based index of the source; undefined past the end
TokAt(cs, k) == IF k + 1 <= Len(cs) THEN cs[k + 1] ELSE [type |-> "undefined"]

\* a group test that would not look at the third token
ConvertsAtNoClose(cs, k) ==
    /\ TokAt(cs, k).type = "link_open"
    /\ ZoteroMatches(TokAt(cs, k).href)
    /\ TokAt(cs, k + 1).type = "text"

\* whether the iteration at index k converts a link group
ConvertsAt(cs, k) ==
    /\ TokAt(cs, k).type = "link_open"
    /\ ZoteroMatches(TokAt(cs, k).href)
    /\ TokAt(cs, k + 1).type = "text"
    /\ TokAt(cs, k + 2).type = "link_close"

AfterConvertedNoSkip(k) == k + 1

\* the loop index after a converted group: j += 2, then the loop's j++
AfterConverted(k) == k + 2 + 1

\* an iteration that would step over the token after a copied link_open
ParseStepSkipsAfterIncomplete ==
    /\ pc = "tokenizing"
    /\ j < Len(children)
    /\ IF ConvertsAt(children, j)
       THEN /\ newChildren' = Append(newChildren,
                                     CitationToken(ZoteroKey(TokAt(children, j).href),
                                                   TokAt(children, j + 1).content))
            /\ j' = AfterConverted(j)
       ELSE /\ newChildren' = Append(newChildren, TokAt(children, j))
            /\ j' = IF TokAt(children, j).type = "link_open" THEN j + 2 ELSE j + 1
    /\ UNCHANGED <<pc, children, record, input, output,
                   doc, sel, extState, inflight, lastOp, origin>>

\* one iteration of the inner loop of parseCitations
ParseStep ==
    /\ pc = "tokenizing"
    /\ j < Len(children)
    /\ IF ConvertsAt(children, j)
       THEN /\ newChildren' = Append(newChildren,
                                     CitationToken(ZoteroKey(TokAt(children, j).href),
                                                   TokAt(children, j + 1).content))
            /\ j' = AfterConverted(j)
       ELSE /\ newChildren' = Append(newChildren, TokAt(children, j))
            /\ j' = j + 1
    /\ UNCHANGED <<pc, children, record, input, output,
                   doc, sel, extState, inflight, lastOp, origin>>

\* blockTok.children = newChildren
ParseFinish ==
    /\ pc = "tokenizing"
    /\ j >= Len(children)
    /\ children' = newChildren
    /\ pc' = "tokenized"
    /\ UNCHANGED <<j, newChildren, record, input, output,
                   doc, sel, extState, inflight, lastOp, origin>>

(***************************************************************************)
(* Inputs of the tokenizer                                                 *)
(***************************************************************************)
\* the longest inline token stream handed to parseCitations
MaxTokens == 4

KeyABCD1234 == <<"A", "B", "C", "D", "1", "2", "3", "4">>
KeyK9 == <<"k", "9">>

Smith == <<"S", "m", "i", "t", "h">>
Year2020 == <<"2", "0", "2", "0">>
SmithParen == Smith \o <<",", " ">> \o Year2020
SmithNarr == Smith \o <<" ", "(">> \o Year2020 \o <<")">>

\* link targets: two that ZOTERO_RE accepts and two it rejects
Hrefs ==
    { ZoteroScheme \o KeyABCD1234,
      <<"Z", "O", "T", "E", "R", "O", ":", "/", "/">> \o KeyK9,
      <<"h", "t", "t", "p", ":", "/", "/", "a">>,
      ZoteroScheme \o <<"A", "/", "B">> }

\* contents of the text tokens of an arbitrary stream
StreamTexts == {SmithParen, SmithNarr}

TokenAlphabet ==
    {LinkOpen(h) : h \in Hrefs} \cup {TextTok(t) : t \in StreamTexts}
        \cup {LinkClose, OtherTok}

TokenStreams == UNION {[1..n -> TokenAlphabet] : n \in 0..MaxTokens}

\* stored label texts of citation records
RecordTexts ==
    { <<>>, SmithParen, SmithNarr,
      SmithNarr \o <<" ">>,                                 \* trailing space
      Smith \o <<"\t", "(">> \o Year2020 \o <<")">>,        \* tab before the year
      Smith \o <<"(">> \o Year2020 \o <<")">>,              \* no space before the year
      Smith \o <<" ", "(", "2", "0", ")">>,                 \* two-digit year
      SmithNarr \o <<" ", "a">> }                           \* text after the year

CitationRecords ==
    [key : {KeyABCD1234, KeyK9},
     text : RecordTexts,
     title : {<<>>, <<"T">>},
     mode : CitationModes]

None == [type |-> "none"]

(***************************************************************************)
(* Idle values of the parts a specification does not use                   *)
(***************************************************************************)
EmptyDoc == [type |-> "doc", content |-> <<>>]

HarnessIdle ==
    /\ children = <<>> /\ j = 0 /\ newChildren = <<>>
    /\ record = None /\ input = <<>> /\ output = <<>>

EditorIdle ==
    /\ doc = EmptyDoc /\ sel = 0
    /\ extState = None /\ inflight = EmptyBag /\ lastOp = None /\ origin = <<>>

editorVars == <<doc, sel, extState, inflight, lastOp, origin>>

(***************************************************************************)
(* Specification of the tokenizer pass                                     *)
(***************************************************************************)
InitTok == pc = "start" /\ HarnessIdle /\ EditorIdle

\* the markdown parser hands an inline token stream to the rule
LoadStream ==
    /\ pc = "start"
    /\ \E ts \in TokenStreams :
          /\ children' = ts
          /\ input' = ts
    /\ j' = 0
    /\ newChildren' = <<>>
    /\ pc' = "tokenizing"
    /\ UNCHANGED <<record, output>>
    /\ UNCHANGED editorVars

\* a citation node is serialized, and the markdown read back
SerializeRecord ==
    /\ pc = "start"
    /\ \E attrs \in CitationRecords :
          /\ record' = attrs
          /\ output' = toMarkdown(attrs)
          /\ children' = MdInlineLink(toMarkdown(attrs))
          /\ input' = MdInlineLink(toMarkdown(attrs))
    /\ j' = 0
    /\ newChildren' = <<>>
    /\ pc' = "tokenizing"
    /\ UNCHANGED editorVars

NextTok == LoadStream \/ SerializeRecord \/ ParseStep \/ ParseFinish

SpecTok == InitTok /\ [][NextTok]_vars

(***************************************************************************)
(* Properties of the tokenizer pass                                        *)
(***************************************************************************)
\* the (1-based) places of the input where a link group with a zotero:// key
\* starts: link_open, text, link_close in a row
TripleStarts(cs) ==
    {i \in 1..(Len(cs) - 2) :
        /\ cs[i].type = "link_open" /\ ZoteroMatches(cs[i].href)
        /\ cs[i + 1].type = "text"
        /\ cs[i + 2].type = "link_close"}

\* C3: every convertible link triple becomes exactly one citation token with
\* the captured key, the text token's content and an empty title; the output
\* is shorter by two tokens per triple and every other token keeps its place
\* in the order
C3_TripleConversion ==
    pc = "tokenized" =>
       LET ts == TripleStarts(input)
           place(i) == i - 2 * Cardinality({t \in ts : t < i})
       IN /\ Len(children) = Len(input) - 2 * Cardinality(ts)
          /\ \A i \in 1..Len(input) :
                IF i \in ts
                THEN LET tok == children[place(i)] IN
                     /\ tok.type = "citation"
                     /\ tok.key = ZoteroKey(input[i].href)
                     /\ tok.text = input[i + 1].content
                     /\ tok.title = <<>>
                ELSE (\E t \in ts : i \in {t + 1, t + 2})
                        \/ children[place(i)] = input[i]

\* a finished pass over a stream that holds a triple among other tokens
C3_Witness ==
    /\ pc = "tokenized"
    /\ record = None
    /\ Cardinality(TripleStarts(input)) = 1
    /\ Len(input) = 4
    /\ Len(children) = 2

\* C4 as stated: serialize then tokenize gives back key and text, also for a
\* record whose text is empty
C4_RoundTripAnyText ==
    (pc = "tokenized" /\ record # None) =>
       /\ Len(children) = 1
       /\ children[1].type = "citation"
       /\ children[1].key = record.key
       /\ children[1].text = record.text

\* C4 amended: key and text come back for a record whose text is not empty;
\* for an empty text the label written is the key, which comes back as text
C4_RoundTrip ==
    (pc = "tokenized" /\ record # None) =>
       /\ Len(children) = 1
       /\ children[1].type = "citation"
       /\ children[1].key = record.key
       /\ children[1].text = IF record.text # <<>> THEN record.text ELSE record.key

C4_Witness ==
    /\ pc = "tokenized"
    /\ record # None
    /\ record.text = SmithParen
    /\ children[1].type = "citation"
    /\ children[1].text = SmithParen

\* the text ends with a space and a four-digit year in parentheses
EndsWithSpaceYear(text) ==
    LET n == Len(text) IN
    /\ n >= 7
    /\ text[n - 6] = " " /\ text[n - 5] = "("
    /\ AllIn(text, n - 4, n - 1, Digits)
    /\ text[n] = ")"

RECURSIVE TrimEnd(_)
\* the text without its trailing white space
TrimEnd(text) ==
    IF text # <<>> /\ IsSpace(text[Len(text)])
    THEN TrimEnd(Slice(text, 1, Len(text) - 1))
    ELSE text

\* the text, trailing white space aside, ends with a white-space character and
\* a four-digit year in parentheses
EndsWithBlankYear(text) ==
    LET t == TrimEnd(text)
        n == Len(t)
    IN /\ n >= 7
       /\ IsSpace(t[n - 6]) /\ t[n - 5] = "("
       /\ AllIn(t, n - 4, n - 1, Digits)
       /\ t[n] = ")"

CitationTokens == {i \in 1..Len(children) : children[i].type = "citation"}

\* C10 as stated: a citation token is narrative exactly when its text ends with
\* a space followed by a four-digit year in parentheses
C10_ModeBySpaceYear ==
    pc = "tokenized" =>
       \A i \in CitationTokens :
          (children[i].mode = "narrative") <=> EndsWithSpaceYear(children[i].text)

\* C10 amended: narrative exactly when the text, trailing white space aside,
\* ends with a white-space character followed by a four-digit year in
\* parentheses; parenthetical otherwise
C10_ModeByBlankYear ==
    pc = "tokenized" =>
       \A i \in CitationTokens :
          /\ children[i].mode \in CitationModes
          /\ (children[i].mode = "narrative") <=> EndsWithBlankYear(children[i].text)

C10_Witness ==
    /\ pc = "tokenized"
    /\ \E i \in CitationTokens :
          /\ children[i].mode = "narrative"
          /\ children[i].text = SmithNarr \o <<" ">>

\* the places of the input where a link_open with a zotero:// key is not
\* followed by a text token and then a link_close token
IncompleteOpens(cs) ==
    {i \in 1..Len(cs) :
        /\ cs[i].type = "link_open" /\ ZoteroMatches(cs[i].href)
        /\ i \notin TripleStarts(cs)}

\* C11: a link_open with a zotero:// key that heads no complete group is
\* copied to the output as it is, the tokens after it are handled as usual
\* (copied, or converted when they form a group), and no token is lost: the
\* output holds every input token outside the converted groups, in order
C11_IncompletePassThrough ==
    pc = "tokenized" =>
       LET ts == TripleStarts(input)
           place(i) == i - 2 * Cardinality({t \in ts : t < i})
       IN /\ Len(children) + 2 * Cardinality(ts) = Len(input)
          /\ \A i \in 1..Len(input) :
                /\ ( /\ input[i].type = "link_open"
                     /\ ZoteroMatches(input[i].href)
                     /\ i \notin ts ) => children[place(i)] = input[i]
                /\ i \in ts => children[place(i)].type = "citation"
                /\ (i \notin ts /\ i - 1 \notin ts /\ i - 2 \notin ts) =>
                      children[place(i)] = input[i]

\* a pass over a stream that begins with a link_open lacking its text, goes
\* on with a complete group, and one over a stream that ends in a link_open
C11_Witness ==
    /\ pc = "tokenized"
    /\ record = None
    /\ \/ /\ Len(input) = 4
          /\ 1 \in IncompleteOpens(input)
          /\ 2 \in TripleStarts(input)
          /\ children = <<input[1], children[2]>>
          /\ children[2].type = "citation"
       \/ /\ Len(input) = 3
          /\ IncompleteOpens(input) = {1, 3}
          /\ input[2].type = "text"
          /\ children = input

(***************************************************************************)
(* Specification of the mode converter applied to arbitrary texts          *)
(***************************************************************************)
\* the most pieces a text handed to the converter is put together from
MaxConvPieces == 4

ConvPieces ==
    { <<"S">>, <<",">>, <<" ">>, <<"\n">>, Year2020,
      <<"(">> \o Year2020 \o <<")">> }

ConvTexts ==
    {Concat(ps) : ps \in UNION {[1..n -> ConvPieces] : n \in 0..MaxConvPieces}}

InitConv == pc = "start" /\ HarnessIdle /\ EditorIdle

\* a text, its mode and the mode to convert to
PickConversion ==
    /\ pc = "start"
    /\ \E text \in ConvTexts, fromMode \in CitationModes, toMode \in CitationModes :
          input' = [text |-> text, fromMode |-> fromMode, toMode |-> toMode]
    /\ pc' = "picked"
    /\ UNCHANGED <<children, j, newChildren, record, output>>
    /\ UNCHANGED editorVars

\* convert(text, A, B)
ConvertThere ==
    /\ pc = "picked"
    /\ output' = <<convertTextBetweenModes(input.text, input.fromMode, input.toMode)>>
    /\ pc' = "converted"
    /\ UNCHANGED <<children, j, newChildren, record, input>>
    /\ UNCHANGED editorVars

\* convert(convert(text, A, B), B, A)
ConvertBack ==
    /\ pc = "converted"
    /\ output' = Append(output,
                        convertTextBetweenModes(output[1], input.toMode, input.fromMode))
    /\ pc' = "back"
    /\ UNCHANGED <<children, j, newChildren, record, input>>
    /\ UNCHANGED editorVars

NextConv == PickConversion \/ ConvertThere \/ ConvertBack

SpecConv == InitConv /\ [][NextConv]_vars

\* C6 as stated: a conversion that matched is undone by the conversion back, and
\* a conversion that did not match leaves the text alone, as does the
\* conversion back after it
C6_RoundTripWheneverMatched ==
    (pc = "back" /\ input.fromMode # input.toMode) =>
       IF ConvertMatches(input.text, input.fromMode, input.toMode)
       THEN output[2] = input.text
       ELSE output[1] = input.text /\ output[2] = input.text

\* the year is set off from the author part the way the converter writes it:
\* ", " in parenthetical shape, one space in narrative shape, and the author
\* part does not end in white space
CanonicalShape(text, mode) ==
    LET n == Len(text) IN
    IF mode = "parenthetical"
    THEN /\ n >= 7
         /\ ~IsSpace(text[n - 6])
         /\ text[n - 5] = "," /\ text[n - 4] = " "
         /\ AllIn(text, n - 3, n, Digits)
    ELSE /\ n >= 8
         /\ ~IsSpace(text[n - 7])
         /\ text[n - 6] = " " /\ text[n - 5] = "("
         /\ AllIn(text, n - 4, n - 1, Digits)
         /\ text[n] = ")"

\* C6 amended: a conversion that matched a text of canonical shape is undone by
\* the conversion back; a conversion that did not match returns the text, and
\* so does the conversion back unless the text has the shape of the other mode
C6_RoundTripCanonical ==
    (pc = "back" /\ input.fromMode # input.toMode) =>
       IF ConvertMatches(input.text, input.fromMode, input.toMode)
       THEN CanonicalShape(input.text, input.fromMode) => output[2] = input.text
       ELSE /\ output[1] = input.text
            /\ ~ConvertMatches(input.text, input.toMode, input.fromMode)
                  => output[2] = input.text

C6_Witness ==
    /\ pc = "back"
    /\ input.fromMode = "narrative" /\ input.toMode = "parenthetical"
    /\ ConvertMatches(input.text, input.fromMode, input.toMode)
    /\ CanonicalShape(input.text, input.fromMode)
    /\ output[1] # input.text
    /\ output[2] = input.text

(***************************************************************************)
(* Items of the reference library and locales                              *)
(***************************************************************************)
Jones == <<"J", "o", "n", "e", "s">>
Lee == <<"L", "e", "e">>
\* a surname of several words, one of them the Spanish conjunction
OrtegaYGasset == <<"O", "r", "t", "e", "g", "a", " ", "y", " ",
                   "G", "a", "s", "s", "e", "t">>

Author(lastName) ==
    [lastName |-> lastName, name |-> Undefined, creatorType |-> "author"]

Editor(lastName) ==
    [lastName |-> lastName, name |-> Undefined, creatorType |-> "editor"]

Item(key, creators, date) ==
    [key |-> key, creators |-> creators, date |-> date, title |-> <<"T">>]

ItemNoAuthor == Item(<<"N", "0">>, <<>>, Year2020)
ItemSmith == Item(KeyABCD1234, <<Author(Smith)>>, Year2020)
ItemSmithJones ==
    Item(<<"S", "2">>, <<Author(Smith), Author(Jones)>>,
         Year2020 \o <<"-", "0", "6", "-", "1", "5">>)
ItemSmithEtAl ==
    Item(<<"S", "3">>, <<Author(Smith), Editor(Lee), Author(Jones), Author(Lee)>>,
         Undefined)
ItemEditor == Item(<<"E", "1">>, <<Editor(Lee)>>, Year2020)
ItemNoDate == Item(<<"D", "0">>, <<Author(Smith)>>, <<"n", ".", "d", ".">>)
ItemOrtega == Item(<<"O", "1">>, <<Author(OrtegaYGasset)>>, Year2020)

EnUS == <<"e", "n", "-", "U", "S">>
HuHU == <<"h", "u", "-", "H", "U">>

\* every language of the table, the default language, a region-tagged and an
\* upper-case tag, and no locale at all
Locales ==
    {LocaleLangs[i] : i \in 1..Len(LocaleLangs)}
        \cup {EnUS, HuHU, <<"P", "L">>, Undefined}

(***************************************************************************)
(* Specification of the label rewriter                                     *)
(***************************************************************************)
\* the most pieces a text handed to the rewriter is put together from
MaxRewritePieces == 5

RewritePieces == { <<"S">>, <<" ">>, <<"&">>, <<"i">>, EtAlLatin }

RewriteTexts ==
    {Concat(ps) : ps \in UNION {[1..n -> RewritePieces] : n \in 0..MaxRewritePieces}}

RewriteItems ==
    {ItemNoAuthor, ItemSmith, ItemSmithJones, ItemSmithEtAl, ItemEditor,
     ItemNoDate, ItemOrtega}

InitRewrite == pc = "start" /\ HarnessIdle /\ EditorIdle

\* an arbitrary stored text and a target locale
PickText ==
    /\ pc = "start"
    /\ \E text \in RewriteTexts, locale \in Locales :
          input' = [text |-> text, locale |-> locale, item |-> None]
    /\ pc' = "picked"
    /\ UNCHANGED <<children, j, newChildren, record, output>>
    /\ UNCHANGED editorVars

\* a label the formatter wrote under locale l1, and a target locale
PickLabel ==
    /\ pc = "start"
    /\ \E item \in RewriteItems, mode \in CitationModes,
          l1 \in Locales, locale \in Locales, tz \in TimeZones :
          input' = [text |-> formatCitationLabel(item, mode, l1, tz),
                    locale |-> locale, item |-> item, mode |-> mode,
                    from |-> l1, tz |-> tz]
    /\ pc' = "picked"
    /\ UNCHANGED <<children, j, newChildren, record, output>>
    /\ UNCHANGED editorVars

\* rewrite(text, L)
RewriteOnce ==
    /\ pc = "picked"
    /\ output' = <<rewriteCitationText(input.text, input.locale)>>
    /\ pc' = "once"
    /\ UNCHANGED <<children, j, newChildren, record, input>>
    /\ UNCHANGED editorVars

\* rewrite(rewrite(text, L), L)
RewriteTwice ==
    /\ pc = "once"
    /\ output' = Append(output, rewriteCitationText(output[1], input.locale))
    /\ pc' = "twice"
    /\ UNCHANGED <<children, j, newChildren, record, input>>
    /\ UNCHANGED editorVars

NextRewrite == PickText \/ PickLabel \/ RewriteOnce \/ RewriteTwice

SpecRewrite == InitRewrite /\ [][NextRewrite]_vars

\* C5: rewriting a second time for the same locale changes nothing
C5_RewriteIdempotent ==
    pc = "twice" => output[2] = output[1]

\* C9: a label written under any locale, rewritten for a target locale, is the
\* label the formatter writes for the same item and mode under the target
C9_RewriteIsReformat ==
    (pc = "once" /\ input.item # None) =>
       output[1] = formatCitationLabel(input.item, input.mode, input.locale, input.tz)

(***************************************************************************)
(* The document tree of the editor (prosemirror-model as the extension     *)
(* uses it).  A node is [type, content] with attrs where the schema has    *)
(* them; text is kept one character per text node, so that every inline    *)
(* node has size 1 and positions are those of ProseMirror.                 *)
(***************************************************************************)
TextNode(ch) == [type |-> "text", text |-> ch]
CitationNode(attrs) == [type |-> "citation", attrs |-> attrs]
Paragraph(content) == [type |-> "paragraph", content |-> content]
Blockquote(content) == [type |-> "blockquote", content |-> content]
Doc(content) == [type |-> "doc", content |-> content]

\* bibType.create({style, locale}, content)
BibliographyNode(style, locale, content) ==
    [type |-> "zoteroBibliography",
     attrs |-> [style |-> style, locale |-> locale],
     content |-> content]

IsLeaf(n) == n.type \in {"text", "citation"}

RECURSIVE NodeSize(_), ContentSize(_)
\* node.nodeSize
NodeSize(n) == IF IsLeaf(n) THEN 1 ELSE 2 + ContentSize(n.content)
\* fragment.size
ContentSize(c) == IF c = <<>> THEN 0 ELSE NodeSize(Head(c)) + ContentSize(Tail(c))

RECURSIVE Walk(_, _)
\* the (node, pos) pairs node.descendants visits, in its order, for a
\* callback that always descends
Walk(c, pos) ==
    IF c = <<>> THEN <<>>
    ELSE <<[node |-> Head(c), pos |-> pos]>>
            \o (IF IsLeaf(Head(c)) THEN <<>> ELSE Walk(Head(c).content, pos + 1))
            \o Walk(Tail(c), pos + NodeSize(Head(c)))

Descendants(d) == Walk(d.content, 0)

\* doc.nodeAt(pos) for a position inside the document; None stands for null
NodeAt(d, pos) ==
    LET w == Descendants(d) IN
    IF \E i \in 1..Len(w) : w[i].pos = pos
    THEN w[CHOOSE i \in 1..Len(w) : w[i].pos = pos].node
    ELSE None

\* positions a text cursor can be at: inside a paragraph
CursorPositions(d) ==
    LET w == Descendants(d) IN
    UNION {(w[i].pos + 1)..(w[i].pos + 1 + Len(w[i].node.content)) :
              i \in {k \in 1..Len(w) : w[k].node.type = "paragraph"}}

\* Selection.near: the next cursor position at or after pos, else the last before
NearCursor(d, pos) ==
    LET cs == CursorPositions(d) IN
    IF \E c \in cs : c >= pos
    THEN CHOOSE c \in cs : c >= pos /\ \A m \in cs : m >= pos => c <= m
    ELSE CHOOSE c \in cs : \A m \in cs : m <= c

RECURSIVE ReplaceNodeAt(_, _, _, _)
\* the content with the node that starts at pos replaced by the nodes repl
ReplaceNodeAt(c, base, pos, repl) ==
    IF c = <<>> THEN <<>>
    ELSE LET h == Head(c)
             sz == NodeSize(h)
         IN IF pos = base THEN repl \o Tail(c)
            ELSE IF pos >= base + sz \/ IsLeaf(h)
            THEN <<h>> \o ReplaceNodeAt(Tail(c), base + sz, pos, repl)
            ELSE <<[h EXCEPT !.content = ReplaceNodeAt(h.content, base + 1, pos, repl)]>>
                    \o Tail(c)

RECURSIVE InsertBlockAt(_, _, _, _)
\* tr.insert(pos, block) on block content: between two blocks the node is put
\* there; inside a paragraph the replace step splits the paragraph around it
InsertBlockAt(c, base, pos, blk) ==
    IF pos = base THEN <<blk>> \o c
    ELSE IF c = <<>> THEN <<>>
    ELSE LET h == Head(c)
             sz == NodeSize(h)
         IN IF pos >= base + sz
            THEN <<h>> \o InsertBlockAt(Tail(c), base + sz, pos, blk)
            ELSE IF h.type = "paragraph"
            THEN << Paragraph(Slice(h.content, 1, pos - base - 1)), blk,
                    Paragraph(Slice(h.content, pos - base, Len(h.content))) >>
                    \o Tail(c)
            ELSE <<[h EXCEPT !.content = InsertBlockAt(h.content, base + 1, pos, blk)]>>
                    \o Tail(c)

RECURSIVE InsertInlineAt(_, _, _, _)
\* tr.replaceWith(pos, pos, nodes) for inline nodes at a cursor position
InsertInlineAt(c, base, pos, nodes) ==
    IF c = <<>> THEN <<>>
    ELSE LET h == Head(c)
             sz == NodeSize(h)
         IN IF pos >= base + sz \/ IsLeaf(h)
            THEN <<h>> \o InsertInlineAt(Tail(c), base + sz, pos, nodes)
            ELSE IF h.type = "paragraph"
            THEN <<Paragraph(Slice(h.content, 1, pos - base - 1) \o nodes
                               \o Slice(h.content, pos - base, Len(h.content)))>>
                    \o Tail(c)
            ELSE <<[h EXCEPT !.content = InsertInlineAt(h.content, base + 1, pos, nodes)]>>
                    \o Tail(c)

\* the step map of a replacement of [from, to) by newSize positions, applied
\* to a position with assoc = 1
MapPos(pos, from, to, newSize) ==
    IF from = to
    THEN IF pos >= from THEN pos + newSize ELSE pos
    ELSE IF pos <= from THEN pos
    ELSE IF pos <= to THEN from + newSize
    ELSE pos - (to - from) + newSize

\* Selection.map: the mapped cursor, moved to the nearest cursor position when
\* it no longer is one
MapSelection(d, pos, from, to, newSize) ==
    LET m == MapPos(pos, from, to, newSize) IN
    IF m \in CursorPositions(d) THEN m ELSE NearCursor(d, m)

(***************************************************************************)
(* The citation dialog's confirmation and the citation commands of the     *)
(* extension                                                               *)
(***************************************************************************)
\* firstAuthorLastName(item)
firstAuthorLastName(item) ==
    LET authors == AuthorsOf(item) IN
    IF Len(authors) = 0 THEN <<"U", "n", "k", "n", "o", "w", "n">>
    ELSE Coalesce(authors[1].lastName,
                  Coalesce(authors[1].name, <<"U", "n", "k", "n", "o", "w", "n">>))

\* the collation order of the characters of the model at sensitivity "base":
\* case and accents do not count
CollationOrder ==
    <<" ", "\t", "\n", ",", ".", "-", "(", ")", "&",
      "0", "1", "2", "3", "4", "5", "6", "7", "8", "9",
      "a", "b", "c", "d", "e", "f", "g", "h", "i", "j", "k", "l", "m",
      "n", "o", "p", "q", "r", "s", "t", "u", "v", "w", "x", "y", "z">>

BaseChar(c) == IF c = "é" THEN "e" ELSE ToLowerChar(c)

CharRank(c) ==
    IF \E i \in 1..Len(CollationOrder) : CollationOrder[i] = BaseChar(c)
    THEN CHOOSE i \in 1..Len(CollationOrder) : CollationOrder[i] = BaseChar(c)
    ELSE Len(CollationOrder) + 1

RECURSIVE localeCompare(_, _)
\* a.localeCompare(b, undefined, {sensitivity: "base"}): negative, zero, positive
localeCompare(a, b) ==
    IF a = <<>> THEN (IF b = <<>> THEN 0 ELSE -1)
    ELSE IF b = <<>> THEN 1
    ELSE IF CharRank(Head(a)) < CharRank(Head(b)) THEN -1
    ELSE IF CharRank(Head(a)) > CharRank(Head(b)) THEN 1
    ELSE localeCompare(Tail(a), Tail(b))

RECURSIVE InsertSorted(_, _)
InsertSorted(sorted, item) ==
    IF sorted = <<>> THEN <<item>>
    ELSE IF localeCompare(firstAuthorLastName(item),
                          firstAuthorLastName(Head(sorted))) < 0
    THEN <<item>> \o sorted
    ELSE <<Head(sorted)>> \o InsertSorted(Tail(sorted), item)

RECURSIVE SortByFirstAuthor(_)
\* [...selected].sort(by first author's last name): the sort is stable
SortByFirstAuthor(selected) ==
    IF selected = <<>> THEN <<>>
    ELSE InsertSorted(SortByFirstAuthor(Slice(selected, 1, Len(selected) - 1)),
                      selected[Len(selected)])

\* the citations handleConfirm hands to onSelect
ConfirmedCitations(selected, mode, locale, tz) ==
    LET sorted == SortByFirstAuthor(selected) IN
    [i \in 1..Len(sorted) |->
        [key |-> sorted[i].key,
         text |-> formatCitationLabel(sorted[i], mode, locale, tz),
         title |-> Coalesce(sorted[i].title, <<>>),
         mode |-> mode]]

\* the nodes insertCitationNodes creates; every citation of the dialog has a
\* mode, so the default of "mode ?? parenthetical" is never taken
CitationNodes(items) ==
    [i \in 1..Len(items) |->
        CitationNode([key |-> items[i].key, text |-> items[i].text,
                      title |-> items[i].title,
                      mode |-> items[i].mode])]

ToggledAttrsModeOnly(attrs, newMode) == [attrs EXCEPT !.mode = newMode]

ToggledAttrsFresh(attrs, newMode) ==
    [key |-> attrs.key,
     text |-> convertTextBetweenModes(attrs.text, attrs.mode, newMode),
     title |-> <<>>,
     mode |-> newMode]

\* the attrs toggleCitationMode gives the node
ToggledAttrs(attrs, newMode) ==
    [attrs EXCEPT !.mode = newMode,
                  !.text = convertTextBetweenModes(attrs.text, attrs.mode, newMode)]

CitationsIn(d) ==
    SelectSeq(Descendants(d), LAMBDA e : e.node.type = "citation")

\* what a toggle remembers of the operation before it: a toggle that changed
\* the mode of a citation, with the node as it was
Summary(op) ==
    IF op.type = "toggleCitationMode" /\ op.changed /\ op.before.attrs.mode # op.newMode
    THEN [type |-> op.type, pos |-> op.pos, before |-> op.before]
    ELSE [type |-> "other"]

(***************************************************************************)
(* Specification of the citation commands: citations come into the         *)
(* document through the dialog, and are toggled and deleted by position.   *)
(* origin holds the dialog's locale and the browser's time zone.           *)
(***************************************************************************)
\* the most citations the document holds
MaxCitations == 1
SmithSpace == Smith \o <<" ">>
\* an author whose name field ends with a blank
ItemTrailingBlank == Item(<<"B", "1">>, <<Author(SmithSpace)>>, Year2020)

ToggleItems == {ItemSmith, ItemSmithEtAl, ItemNoDate, ItemTrailingBlank}

ToggleLocales == {Undefined, HuHU}

ItemByKey(key) == CHOOSE item \in ToggleItems : item.key = key

Selections ==
    {sq \in UNION {[1..n -> ToggleItems] : n \in 0..MaxCitations} :
        \A a, b \in 1..Len(sq) : a # b => sq[a].key # sq[b].key}

InitToggle ==
    /\ pc = "editing" /\ HarnessIdle
    /\ doc = Doc(<<Paragraph(<<TextNode("x")>>)>>)
    /\ sel = 1
    /\ origin \in [locale : ToggleLocales, tz : TimeZones]
    /\ extState = None /\ inflight = EmptyBag /\ lastOp = None

harnessVars == <<children, j, newChildren, record, input, output>>

\* the dialog is confirmed with a selection: handleConfirm, then onSelect
\* which is insertCitationNodes at the cursor
ConfirmCitations ==
    /\ pc = "editing"
    /\ \E selected \in Selections, mode \in CitationModes :
          LET items == ConfirmedCitations(selected, mode, origin.locale, origin.tz)
              nodes == CitationNodes(items)
          IN /\ Len(CitationsIn(doc)) + Len(selected) <= MaxCitations
             /\ IF Len(selected) = 0
                THEN UNCHANGED <<doc, sel>>
                ELSE /\ doc' = Doc(InsertInlineAt(doc.content, 0, sel, nodes))
                     /\ sel' = sel + Len(nodes)
             /\ lastOp' = [type |-> "insertCitationNodes", count |-> Len(selected)]
    /\ UNCHANGED <<pc, extState, inflight, origin>>
    /\ UNCHANGED harnessVars

\* toggleCitationMode(pos, newMode)
toggleCitationMode ==
    /\ pc = "editing"
    /\ \E pos \in 0..ContentSize(doc.content), newMode \in CitationModes :
          LET node == NodeAt(doc, pos)
              isCitation == node # None /\ node.type = "citation"
              newDoc == IF isCitation
                        THEN Doc(ReplaceNodeAt(doc.content, 0, pos,
                                   <<CitationNode(ToggledAttrs(node.attrs, newMode))>>))
                        ELSE doc
          IN /\ doc' = newDoc
             /\ sel' = IF isCitation
                       THEN MapSelection(newDoc, sel, pos, pos + 1, 1)
                       ELSE sel
             /\ lastOp' = [type |-> "toggleCitationMode", pos |-> pos,
                           newMode |-> newMode, before |-> node,
                           changed |-> newDoc # doc,
                           prev |-> Summary(lastOp)]
    /\ UNCHANGED <<pc, extState, inflight, origin>>
    /\ UNCHANGED harnessVars

\* deleteCitation(pos)
deleteCitation ==
    /\ pc = "editing"
    /\ \E pos \in 0..ContentSize(doc.content) :
          LET node == NodeAt(doc, pos)
              isCitation == node # None /\ node.type = "citation"
              newDoc == IF isCitation
                        THEN Doc(ReplaceNodeAt(doc.content, 0, pos, <<>>))
                        ELSE doc
          IN /\ doc' = newDoc
             /\ sel' = IF isCitation
                       THEN MapSelection(newDoc, sel, pos, pos + 1, 0)
                       ELSE sel
             /\ lastOp' = [type |-> "deleteCitation", deleted |-> isCitation]
    /\ UNCHANGED <<pc, extState, inflight, origin>>
    /\ UNCHANGED harnessVars

NextToggle == ConfirmCitations \/ toggleCitationMode \/ deleteCitation

SpecToggle == InitToggle /\ [][NextToggle]_vars

(***************************************************************************)
(* Claims about the citation commands                                      *)
(***************************************************************************)
\* the label the formatter writes for the record's item under the record's
\* mode and the dialog's locale
FormattedFor(attrs) ==
    formatCitationLabel(ItemByKey(attrs.key), attrs.mode, origin.locale, origin.tz)

ConvertibleFacts(item, locale, tz) ==
    LET author == buildAuthorPart(item, getLocaleTerms(locale))
        year == buildYearPart(item, tz)
    IN /\ author # <<>>
       /\ NoLineBreak(author, 1, Len(author))
       /\ ~IsSpace(author[Len(author)])
       /\ \/ Len(year) = 4 /\ AllIn(year, 1, 4, Digits)
          \/ year = <<>> /\ ~IsDigit(author[Len(author)]) /\ author[Len(author)] # ")"

ToggledNode == NodeAt(doc, lastOp.pos)

IsC8Record(node) ==
    /\ node # None /\ node.type = "citation"
    /\ node.attrs.key = KeyABCD1234
    /\ node.attrs.text = SmithParen
    /\ node.attrs.mode = "parenthetical"

\* C8: a toggle of a citation node sets the mode asked for and the converted
\* text in one step and leaves key and title as they were; toggling the record
\* {ABCD1234, "Smith, 2020", parenthetical} to narrative gives text
\* "Smith (2020)" and mode narrative; toggling back right away gives the
\* original record; a toggle at a position that holds no citation leaves the
\* document as it is
C8_ToggleEndToEnd ==
    lastOp.type = "toggleCitationMode" =>
       /\ (lastOp.before # None /\ lastOp.before.type = "citation") =>
             /\ ToggledNode.type = "citation"
             /\ ToggledNode.attrs.key = lastOp.before.attrs.key
             /\ ToggledNode.attrs.title = lastOp.before.attrs.title
             /\ ToggledNode.attrs.mode = lastOp.newMode
             /\ ToggledNode.attrs.text =
                   convertTextBetweenModes(lastOp.before.attrs.text,
                                           lastOp.before.attrs.mode, lastOp.newMode)
       /\ (IsC8Record(lastOp.before) /\ lastOp.newMode = "narrative") =>
             ToggledNode = CitationNode([key |-> KeyABCD1234, text |-> SmithNarr,
                                         title |-> lastOp.before.attrs.title,
                                         mode |-> "narrative"])
       /\ ( /\ lastOp.prev.type = "toggleCitationMode"
            /\ IsC8Record(lastOp.prev.before)
            /\ lastOp.pos = lastOp.prev.pos
            /\ lastOp.newMode = "parenthetical" ) =>
             ToggledNode = lastOp.prev.before
       /\ (lastOp.before = None \/ lastOp.before.type # "citation") => ~lastOp.changed

\* the record has been toggled to narrative and back
C8_Witness ==
    /\ lastOp.type = "toggleCitationMode"
    /\ lastOp.prev.type = "toggleCitationMode"
    /\ IsC8Record(lastOp.prev.before)
    /\ lastOp.pos = lastOp.prev.pos
    /\ lastOp.newMode = "parenthetical"
    /\ IsC8Record(ToggledNode)

(***************************************************************************)
(* The bibliography commands of the extension                              *)
(***************************************************************************)
\* selectedBibliographyPos: null
Null == -1

\* the position before the innermost bibliography block around the cursor,
\* as the view plugin's update computes it from the ancestors of $from
SelectedBibliographyPos(d, s) ==
    LET w == Descendants(d)
        around == {i \in 1..Len(w) :
                      /\ w[i].node.type = "zoteroBibliography"
                      /\ w[i].pos < s /\ s < w[i].pos + NodeSize(w[i].node)}
    IN IF around = {} THEN Null
       ELSE w[CHOOSE i \in around : \A k \in around : k <= i].pos

\* a collection that would push the key of every citation it meets
collectCitationKeysAll(d) ==
    SelectSeq([i \in 1..Len(CitationsIn(d)) |-> CitationsIn(d)[i].node.attrs.key],
              LAMBDA key : key # <<>>)

\* collectCitationKeys(state): every key once, in document order
collectCitationKeys(d) ==
    Dedup(SelectSeq([i \in 1..Len(CitationsIn(d)) |-> CitationsIn(d)[i].node.attrs.key],
                    LAMBDA key : key # <<>>))

findBibliographyRangeTopLevel(d) ==
    LET tops == {i \in 1..Len(d.content) : d.content[i].type = "zoteroBibliography"}
        first == CHOOSE i \in tops : \A k \in tops : i <= k
        from == ContentSize(Slice(d.content, 1, first - 1))
    IN IF tops = {} THEN None
       ELSE [type |-> "range", from |-> from, to |-> from + NodeSize(d.content[first])]

\* a search that would keep the last bibliography block the walk meets
findBibliographyRangeLast(d) ==
    LET w == Descendants(d)
        found == {i \in 1..Len(w) : w[i].node.type = "zoteroBibliography"}
        last == CHOOSE i \in found : \A k \in found : k <= i
    IN IF found = {} THEN None
       ELSE [type |-> "range", from |-> w[last].pos,
             to |-> w[last].pos + NodeSize(w[last].node)]

\* findBibliographyRange(state): the first bibliography block the walk meets
findBibliographyRange(d) ==
    LET w == Descendants(d)
        found == {i \in 1..Len(w) : w[i].node.type = "zoteroBibliography"}
        first == CHOOSE i \in found : \A k \in found : i <= k
    IN IF found = {} THEN None
       ELSE [type |-> "range", from |-> w[first].pos,
             to |-> w[first].pos + NodeSize(w[first].node)]

\* the bibliography the server answers a request with
BibliographyHtml(keys, style, locale) ==
    [keys |-> keys, style |-> style, locale |-> locale]

\* ProseDOMParser.parse of the container holding the html: one paragraph with
\* the rendered entries as one inline node
ParseHtml(html) == <<Paragraph(<<[type |-> "text", text |-> "html", html |-> html]>>)>>

(***************************************************************************)
(* Specification of the bibliography: requests are sent from the editor    *)
(* state at call time, the user goes on editing, and the answers come back *)
(* in any order.  inflight holds, for each request, what the asynchronous  *)
(* function keeps: the selection end of the state it was called with and   *)
(* the html the server will answer with.                                   *)
(***************************************************************************)
\* the most requests waiting for their answer
MaxInFlight == 2
\* the most characters the user types
MaxTyped == 1

BibStyles == {"apa"}
BibLocales == {EnUS, HuHU}

SmithCitation ==
    CitationNode([key |-> KeyABCD1234, text |-> SmithParen,
                  title |-> <<"T">>, mode |-> "parenthetical"])

\* documents the editor is opened with: a citation in a paragraph, a citation
\* inside a block quote, and no citation at all
BibDocs ==
    { Doc(<<Paragraph(<<SmithCitation>>)>>),
      Doc(<<Blockquote(<<Paragraph(<<SmithCitation>>)>>)>>),
      Doc(<<Paragraph(<<>>)>>) }

InitBib ==
    /\ pc = "editing" /\ HarnessIdle
    /\ doc \in BibDocs
    /\ sel = NearCursor(doc, 0)
    /\ extState = [style |-> "apa", locale |-> EnUS]
    /\ inflight = EmptyBag
    /\ lastOp = None
    /\ origin = <<>>

\* fetchAndInsertBibliography(state, dispatch) up to the request, for the
\* extension state ext the handler leaves
FetchBibliography(ext) ==
    LET keys == collectCitationKeys(doc) IN
    IF keys = <<>>
    THEN /\ inflight' = inflight
         /\ lastOp' = [type |-> "fetchAndInsertBibliography", keys |-> keys]
    ELSE /\ inflight' = inflight (+) SetToBag({[selTo |-> sel,
                            html |-> BibliographyHtml(keys, ext.style, ext.locale)]})
         /\ lastOp' = None

\* the insertBibliography command
insertBibliography ==
    /\ pc = "editing"
    /\ BagCardinality(inflight) < MaxInFlight
    /\ FetchBibliography(extState)
    /\ UNCHANGED <<pc, doc, sel, extState, origin>>
    /\ UNCHANGED harnessVars

\* the Refresh button of the bar shown while the cursor is in the block:
\* handleRefresh with the locale typed into the bar, then refreshBibliography
handleRefresh ==
    /\ pc = "editing"
    /\ BagCardinality(inflight) < MaxInFlight
    /\ SelectedBibliographyPos(doc, sel) # Null
    /\ \E localeInput \in BibLocales :
          /\ extState' = [extState EXCEPT !.locale = localeInput]
          /\ FetchBibliography([extState EXCEPT !.locale = localeInput])
    /\ UNCHANGED <<pc, doc, sel, origin>>
    /\ UNCHANGED harnessVars

\* a catch that would go on to put an empty block into the document
RespondFailureInserts ==
    /\ pc = "editing"
    /\ \E req \in BagToSet(inflight) : inflight' = inflight (-) SetToBag({req})
    /\ lastOp' = [type |-> "catch"]
    /\ doc' = IF findBibliographyRange(doc) # None THEN doc
              ELSE Doc(Append(doc.content,
                              BibliographyNode(extState.style, extState.locale,
                                               <<Paragraph(<<>>)>>)))
    /\ UNCHANGED <<pc, sel, extState, origin>>
    /\ UNCHANGED harnessVars

\* the request fails: the catch logs and returns
RespondFailure ==
    /\ pc = "editing"
    /\ \E req \in BagToSet(inflight) : inflight' = inflight (-) SetToBag({req})
    /\ lastOp' = [type |-> "catch"]
    /\ UNCHANGED <<pc, doc, sel, extState, origin>>
    /\ UNCHANGED harnessVars

\* the request is answered: insertBibliographyHtml(html, state, dispatch)
RespondSuccess ==
    /\ pc = "editing"
    /\ \E req \in BagToSet(inflight) :
          LET bibNode == BibliographyNode(extState.style, extState.locale,
                                          ParseHtml(req.html))
              existingRange == findBibliographyRange(doc)
              insertFrom == req.selTo
              path == IF existingRange # None THEN "replaceWith"
                      ELSE IF insertFrom <= ContentSize(doc.content) THEN "insert"
                      ELSE "RangeError"
              newDoc == IF path = "replaceWith"
                        THEN Doc(ReplaceNodeAt(doc.content, 0, existingRange.from,
                                               <<bibNode>>))
                        ELSE IF path = "insert"
                        THEN Doc(InsertBlockAt(doc.content, 0, insertFrom, bibNode))
                        ELSE doc
              newSel == IF path = "replaceWith"
                        THEN MapSelection(newDoc, sel, existingRange.from,
                                          existingRange.to, NodeSize(bibNode))
                        ELSE IF path = "insert"
                        THEN MapSelection(newDoc, sel, insertFrom, insertFrom,
                                          ContentSize(newDoc.content)
                                             - ContentSize(doc.content))
                        ELSE sel
          IN /\ inflight' = inflight (-) SetToBag({req})
             /\ doc' = newDoc
             /\ sel' = newSel
             /\ lastOp' = [type |-> "insertBibliographyHtml", path |-> path,
                           pos |-> IF path = "replaceWith" THEN existingRange.from
                                   ELSE insertFrom,
                           selectionTo |-> sel]
    /\ UNCHANGED <<pc, extState, origin>>
    /\ UNCHANGED harnessVars

\* the widget's effect on the integration settings and the document language
SyncSettings ==
    /\ pc = "editing"
    /\ \E style \in BibStyles, locale \in BibLocales :
          /\ <<style, locale>> # <<extState.style, extState.locale>>
          /\ extState' = [extState EXCEPT !.style = style, !.locale = locale]
    /\ lastOp' = None
    /\ UNCHANGED <<pc, doc, sel, inflight, origin>>
    /\ UNCHANGED harnessVars

\* the widget's effect on selectedBibliographyPos: the locale stored on the
\* block the cursor is in goes into the extension state
SyncBibliographyLocale ==
    /\ pc = "editing"
    /\ LET bibPos == SelectedBibliographyPos(doc, sel)
           node == IF bibPos = Null THEN None ELSE NodeAt(doc, bibPos)
       IN /\ node # None /\ node.type = "zoteroBibliography"
          /\ node.attrs.locale # <<>>
          /\ node.attrs.locale # extState.locale
          /\ extState' = [extState EXCEPT !.locale = node.attrs.locale]
    /\ lastOp' = None
    /\ UNCHANGED <<pc, doc, sel, inflight, origin>>
    /\ UNCHANGED harnessVars

\* the user puts the cursor somewhere else
MoveCursor ==
    /\ pc = "editing"
    /\ \E c \in CursorPositions(doc) :
          /\ c # sel
          /\ sel' = c
    /\ lastOp' = None
    /\ UNCHANGED <<pc, doc, extState, inflight, origin>>
    /\ UNCHANGED harnessVars

TypedCount(d) ==
    Len(SelectSeq(Descendants(d), LAMBDA e : e.node = TextNode("x")))

\* the user types a character at the cursor
TypeText ==
    /\ pc = "editing"
    /\ TypedCount(doc) < MaxTyped
    /\ doc' = Doc(InsertInlineAt(doc.content, 0, sel, <<TextNode("x")>>))
    /\ sel' = sel + 1
    /\ lastOp' = None
    /\ UNCHANGED <<pc, extState, inflight, origin>>
    /\ UNCHANGED harnessVars

NextBib ==
    \/ insertBibliography \/ handleRefresh
    \/ RespondSuccess \/ RespondFailure
    \/ SyncSettings \/ SyncBibliographyLocale
    \/ MoveCursor \/ TypeText

SpecBib == InitBib /\ [][NextBib]_vars

BibliographyCount(d) ==
    Len(SelectSeq(Descendants(d), LAMBDA e : e.node.type = "zoteroBibliography"))

C2_FreshPositions ==
    (lastOp.type = "insertBibliographyHtml" /\ lastOp.path # "replaceWith") =>
       lastOp.pos = lastOp.selectionTo

(***************************************************************************)
(* Specification of the tokenizer pass over one link, for any link target  *)
(***************************************************************************)
\* the longest link target, in pieces
MaxHrefPieces == 3

\* pieces of link targets: the scheme in three spellings, key characters,
\* and what a larger URI puts around them
HrefPieces ==
    { ZoteroScheme,
      <<"Z", "O", "T", "E", "R", "O", ":", "/", "/">>,
      <<"Z", "o", "t", "e", "r", "o", ":", "/", "/">>,
      <<"A">>, <<"b">>, <<"9">>,
      <<"/">>, <<"?">>, <<"-">>, <<"é">>, <<" ">>, <<"\n">>,
      <<"x", ":">> }

HrefStrings ==
    {Concat(ps) : ps \in UNION {[1..n -> HrefPieces] : n \in 0..MaxHrefPieces}}

\* the markdown parser hands the tokens of one inline link to the rule
LoadLink ==
    /\ pc = "start"
    /\ \E h \in HrefStrings :
          /\ children' = <<LinkOpen(h), TextTok(SmithParen), LinkClose>>
          /\ input' = <<LinkOpen(h), TextTok(SmithParen), LinkClose>>
    /\ j' = 0
    /\ newChildren' = <<>>
    /\ pc' = "tokenizing"
    /\ UNCHANGED <<record, output>>
    /\ UNCHANGED editorVars

NextHref == LoadLink \/ ParseStep \/ ParseFinish

SpecHref == InitTok /\ [][NextHref]_vars

\* the whole link target is the scheme, in any letter case, and then one or
\* more ASCII letters or digits
WholeKeyHref(h) ==
    \E n \in 1..Len(h) :
       /\ Len(h) = Len(ZoteroScheme) + n
       /\ \A i \in 1..Len(ZoteroScheme) : ToLowerChar(h[i]) = ZoteroScheme[i]
       /\ \A i \in (Len(ZoteroScheme) + 1)..Len(h) :
             h[i] \in Upper \cup Lower \cup Digits

\* C12: a link group is converted only if its whole link target is the
\* scheme followed by one or more letters or digits, and then the key is what
\* follows the scheme; for every other target (a prefix before the scheme, a
\* path or query after the key, another character in the key, no key) the
\* three tokens are in the output unchanged
C12_AnchoredKeyMatch ==
    pc = "tokenized" =>
       IF WholeKeyHref(input[1].href)
       THEN /\ Len(children) = 1
            /\ children[1].type = "citation"
            /\ Len(children[1].key) >= 1
            /\ input[1].href = SubSeq(input[1].href, 1, Len(ZoteroScheme))
                                   \o children[1].key
       ELSE children = input

\* a pass that left alone a link whose target holds the scheme and a key
\* inside a larger URI, and one whose key is followed by a path
C12_Witness ==
    /\ pc = "tokenized"
    /\ children = input
    /\ \/ input[1].href = <<"x", ":">> \o ZoteroScheme \o <<"A">>
       \/ input[1].href = ZoteroScheme \o <<"A", "/">>

(***************************************************************************)
(* Specification of two tokenizer passes in a row                          *)
(***************************************************************************)
\* the rule runs again on the children the first pass assigned
SecondPass ==
    /\ pc = "tokenized"
    /\ lastOp = None
    /\ lastOp' = [type |-> "parseCitations", children |-> children]
    /\ j' = 0
    /\ newChildren' = <<>>
    /\ pc' = "tokenizing"
    /\ UNCHANGED <<children, record, input, output,
                   doc, sel, extState, inflight, origin>>

NextTokTwice == NextTok \/ SecondPass

SpecTokTwice == InitTok /\ [][NextTokTwice]_vars

\* C13: the output of a pass holds no link group that the rule converts,
\* and a second pass over that output assigns the same children again
C13_PassIdempotent ==
    pc = "tokenized" =>
       /\ TripleStarts(children) = {}
       /\ lastOp # None => children = lastOp.children

\* a second pass is over, on the output of a first pass that converted a
\* group and copied a link_open that heads no group
C13_Witness ==
    /\ pc = "tokenized"
    /\ lastOp # None
    /\ TripleStarts(input) # {}
    /\ IncompleteOpens(input) # {}
    /\ CitationTokens # {}

(***************************************************************************)
(* Specification of the bibliography locator on its own                    *)
(***************************************************************************)
\* the most top-level blocks of a document handed to the locator
MaxBlocks == 3

EmptyParagraph == Paragraph(<<>>)

\* top-level blocks: plain ones, a bibliography block, one inside a
\* blockquote after a paragraph, and one inside another
LocateBlocks ==
    { EmptyParagraph,
      Paragraph(<<TextNode("a")>>),
      Blockquote(<<EmptyParagraph>>),
      BibliographyNode("apa", EnUS, <<EmptyParagraph>>),
      BibliographyNode("apa", HuHU, <<Paragraph(<<TextNode("a")>>), EmptyParagraph>>),
      Blockquote(<<EmptyParagraph, BibliographyNode("apa", EnUS, <<EmptyParagraph>>)>>),
      BibliographyNode("apa", EnUS,
                       <<BibliographyNode("apa", HuHU, <<EmptyParagraph>>)>>) }

LocateDocs == {Doc(c) : c \in UNION {[1..n -> LocateBlocks] : n \in 1..MaxBlocks}}

InitLocate == pc = "start" /\ HarnessIdle /\ EditorIdle

\* an editor state with some document
LoadDoc ==
    /\ pc = "start"
    /\ \E d \in LocateDocs :
          /\ doc' = d
          /\ input' = d
          /\ sel' = NearCursor(d, 0)
    /\ pc' = "loaded"
    /\ UNCHANGED <<children, j, newChildren, record, output,
                   extState, inflight, lastOp, origin>>

\* findBibliographyRange(state) is called and returns
Locate ==
    /\ pc = "loaded"
    /\ lastOp' = [type |-> "findBibliographyRange",
                  result |-> findBibliographyRange(doc)]
    /\ pc' = "located"
    /\ UNCHANGED <<children, j, newChildren, record, input, output,
                   doc, sel, extState, inflight, origin>>

NextLocate == LoadDoc \/ Locate

SpecLocate == InitLocate /\ [][NextLocate]_vars

\* the positions before the bibliography blocks of a document
BibliographyPositions(d) ==
    {p \in 0..NodeSize(d) :
        \E i \in 1..Len(Descendants(d)) :
           /\ Descendants(d)[i].pos = p
           /\ Descendants(d)[i].node.type = "zoteroBibliography"}

\* C14: the locator returns undefined when the document has no bibliography
\* block; otherwise from is the position of the first bibliography block in
\* document order, the node at from is that block and to is from plus its
\* size, and nothing of another bibliography block lies in the span when
\* there is exactly one; the document is the one the call was given
C14_BibliographyLocator ==
    pc = "located" =>
       /\ doc = input
       /\ IF BibliographyPositions(doc) = {}
          THEN lastOp.result = None
          ELSE /\ lastOp.result.from \in BibliographyPositions(doc)
               /\ \A p \in BibliographyPositions(doc) : lastOp.result.from <= p
               /\ NodeAt(doc, lastOp.result.from).type = "zoteroBibliography"
               /\ lastOp.result.to = lastOp.result.from
                                       + NodeSize(NodeAt(doc, lastOp.result.from))
               /\ Cardinality(BibliographyPositions(doc)) = 1 =>
                     BibliographyPositions(doc) = {lastOp.result.from}

\* the locator has answered for a document whose first bibliography block
\* sits inside a blockquote, after a paragraph, with another block after it
C14_Witness ==
    /\ pc = "located"
    /\ Cardinality(BibliographyPositions(doc)) >= 2
    /\ doc.content[1].type = "paragraph"
    /\ doc.content[2].type = "blockquote"
    /\ lastOp.result # None
    /\ lastOp.result.from = NodeSize(doc.content[1]) + 1 + NodeSize(EmptyParagraph)

\* C15: the step in which a bibliography request fails dispatches nothing:
\* document and selection after it are those before it; and the document
\* changes, other than by the user's typing, only in the step that handles
\* a successful response, which takes that response out of the pending ones
C15_FailedFetchLeavesDoc ==
    [][ /\ lastOp'.type = "catch" => doc' = doc /\ sel' = sel
        /\ (doc' # doc /\ TypedCount(doc') = TypedCount(doc)) =>
              /\ lastOp'.type = "insertBibliographyHtml"
              /\ BagCardinality(inflight') = BagCardinality(inflight) - 1 ]_vars

\* a request has just failed while another one is still pending, and the
\* document holds the citation it was sent for and no bibliography block
C15_Witness ==
    /\ lastOp.type = "catch"
    /\ BagCardinality(inflight) = 1
    /\ collectCitationKeys(doc) # <<>>
    /\ findBibliographyRange(doc) = None

\* the rendered entries inside the bibliography blocks of a document, each
\* with the attributes of its block
RenderedEntries(d) ==
    LET w == Descendants(d) IN
    {<<w[i].node.attrs, w[k].node.html>> : <<i, k>> \in
        {<<i, k>> \in (1..Len(w)) \X (1..Len(w)) :
            /\ w[i].node.type = "zoteroBibliography"
            /\ w[i].pos < w[k].pos
            /\ w[k].pos < w[i].pos + NodeSize(w[i].node)
            /\ w[k].node.type = "text"
            /\ w[k].node.text = "html"}}

\* C16: the style and locale stored on a bibliography block are the style
\* and locale of the request that the block's content was rendered for
C16_BlockLocaleIsRequestLocale ==
    \A e \in RenderedEntries(doc) :
       /\ e[1].locale = e[2].locale
       /\ e[1].style = e[2].style

(***************************************************************************)
(* Specification of the term lookup and the label formatter on their own   *)
(***************************************************************************)
Who == <<"W", "H", "O">>

\* a creator with a single-field name, and one with no name at all
Institution(name) ==
    [lastName |-> Undefined, name |-> name, creatorType |-> "author"]
Nameless == [lastName |-> Undefined, name |-> Undefined, creatorType |-> "author"]

ItemThree ==
    Item(<<"S", "4">>, <<Author(Smith), Author(Jones), Author(Lee)>>, Year2020)
ItemTwoMidYear ==
    Item(<<"S", "5">>, <<Author(Smith), Author(Jones)>>,
         Year2020 \o <<"-", "0", "6", "-", "1", "5">>)
ItemInstitution == Item(<<"W", "1">>, <<Institution(Who), Author(Smith)>>, <<>>)
ItemNameless == Item(<<"X", "1">>, <<Nameless>>, Year2020)

FormatItems ==
    { ItemNoAuthor, ItemSmith, ItemSmithJones, ItemSmithEtAl, ItemEditor,
      ItemNoDate, ItemOrtega, ItemThree, ItemTwoMidYear, ItemInstitution,
      ItemNameless }

\* the locale prop of the dialog: the tags of Locales, an unknown language,
\* the empty string and null
FormatLocales == Locales \cup {<<"x", "x">>, <<>>, JsNull}

\* arguments of getLocaleTerms: those, and other strings
LookupLocales ==
    FormatLocales
        \cup { <<"-", "h", "u">>, <<"h", "u", "_", "H", "U">>,
               <<"H", "U", "-", "h", "u">>, <<"h", "u", "n">>, <<"h">>,
               <<"e", "n">>, <<"-">>,
               <<"c", "o", "n", "s", "t", "r", "u", "c", "t", "o", "r">>,
               <<"_", "_", "p", "r", "o", "t", "o", "_", "_", "-", "X">>,
               <<"t", "o", "s", "t", "r", "i", "n", "g">> }

InitFormat == pc = "start" /\ HarnessIdle /\ EditorIdle

\* getLocaleTerms(locale) is called and returns
LookupTerms ==
    /\ pc = "start"
    /\ \E locale \in LookupLocales :
          /\ input' = [locale |-> locale]
          /\ output' = getLocaleTerms(locale)
    /\ pc' = "looked up"
    /\ UNCHANGED <<children, j, newChildren, record>>
    /\ UNCHANGED editorVars

\* formatCitationLabel(item, mode, locale) is called and returns, in a
\* browser of some time zone
FormatLabel ==
    /\ pc = "start"
    /\ \E item \in FormatItems, mode \in CitationModes,
          locale \in FormatLocales, tz \in TimeZones :
          /\ input' = [item |-> item, mode |-> mode, locale |-> locale, tz |-> tz]
          /\ output' = formatCitationLabel(item, mode, locale, tz)
    /\ pc' = "formatted"
    /\ UNCHANGED <<children, j, newChildren, record>>
    /\ UNCHANGED editorVars

NextFormat == LookupTerms \/ FormatLabel

SpecFormat == InitFormat /\ [][NextFormat]_vars

\* the characters before the first hyphen, by their defining property
PrimarySubtag(locale) ==
    CHOOSE p \in {SubSeq(locale, 1, n) : n \in 0..Len(locale)} :
       /\ \A i \in 1..Len(p) : p[i] # "-"
       /\ Len(p) = Len(locale) \/ locale[Len(p) + 1] = "-"

KnownLanguage(lang) == \E i \in 1..Len(LocaleLangs) : LocaleLangs[i] = lang

\* C17: the lookup returns the table entry of the lower-cased characters
\* before the first hyphen when they are a known language, and the default
\* pair for every other argument: an unknown language, the empty string,
\* null, undefined; what it returns is always a pair of terms
C17_LookupNeverFails ==
    pc = "looked up" =>
       IF /\ input.locale \notin {Undefined, JsNull}
          /\ KnownLanguage(ToLower(PrimarySubtag(input.locale)))
       THEN \E i \in 1..Len(LocaleLangs) :
               /\ LocaleLangs[i] = ToLower(PrimarySubtag(input.locale))
               /\ output = LOCALE_TERMS[i]
       ELSE output = [etAl |-> EtAlLatin, and |-> <<"&">>]

\* the surnames of the creators the formatter counts as authors: those of
\* type author, or the only creator whatever its type
AuthorSurnames(item) ==
    LET kept == SelectSeq(item.creators,
                          LAMBDA c : c.creatorType = "author"
                                        \/ Len(item.creators) = 1)
    IN [i \in 1..Len(kept) |->
          IF kept[i].lastName # Undefined THEN kept[i].lastName
          ELSE IF kept[i].name # Undefined THEN kept[i].name ELSE <<>>]

\* the terms of a locale: the table entry of its language, else the default
TermsOfLocale(locale) ==
    IF /\ locale \notin {Undefined, JsNull}
       /\ KnownLanguage(ToLower(PrimarySubtag(locale)))
    THEN LOCALE_TERMS[CHOOSE i \in 1..Len(LocaleLangs) :
                         LocaleLangs[i] = ToLower(PrimarySubtag(locale))]
    ELSE DEFAULT_TERMS

ExpectedAuthorPart(item, locale) ==
    LET names == AuthorSurnames(item) IN
    CASE Len(names) = 0 -> <<"U","n","k","n","o","w","n"," ","A","u","t","h","o","r">>
      [] Len(names) = 1 -> names[1]
      [] Len(names) = 2 ->
            names[1] \o <<" ">> \o TermsOfLocale(locale).and \o <<" ">> \o names[2]
      [] OTHER -> names[1] \o <<" ">> \o TermsOfLocale(locale).etAl

\* what follows the author part in a label
LabelTail(label, author) == SubSeq(label, Len(author) + 1, Len(label))

\* C18: the label begins with the author part: "Unknown Author" for no
\* author, the surname for one, the two surnames around the locale's and-term
\* for two, the first surname and the locale's et-al term for three or more;
\* nothing but the year part follows it. Smith and Jones, parenthetical, 2020,
\* en-US is "Smith & Jones, 2020"; Smith, Jones and Lee, parenthetical, 2020,
\* hu-HU is "Smith és mtsai., 2020"
C18_AuthorPart ==
    pc = "formatted" =>
       LET author == ExpectedAuthorPart(input.item, input.locale)
           tail == LabelTail(output, author)
       IN /\ Len(output) >= Len(author)
          /\ SubSeq(output, 1, Len(author)) = author
          /\ \/ tail = <<>>
             \/ /\ Len(tail) > 2
                /\ SubSeq(tail, 1, 2) \in {<<",", " ">>, <<" ", "(">>}
          /\ ( /\ AuthorSurnames(input.item) = <<Smith, Jones>>
               /\ input.mode = "parenthetical"
               /\ input.locale = EnUS
               /\ buildYearPart(input.item, input.tz) = Year2020 )
             => output = Smith \o <<" ", "&", " ">> \o Jones \o <<",", " ">> \o Year2020
          /\ ( /\ AuthorSurnames(input.item) = <<Smith, Jones, Lee>>
               /\ input.mode = "parenthetical"
               /\ input.locale = HuHU
               /\ buildYearPart(input.item, input.tz) = Year2020 )
             => output = Smith \o <<" ">> \o EtAlHu \o <<",", " ">> \o Year2020

\* the second example of the claim has been formatted
C18_Witness ==
    /\ pc = "formatted"
    /\ input.item = ItemThree
    /\ input.mode = "parenthetical"
    /\ input.locale = HuHU
    /\ output = Smith \o <<" ", "é", "s", " ", "m", "t", "s", "a", "i", ".", ",", " ">>
                      \o Year2020

\* C19: the label is the author part, a space and the year in parentheses
\* in narrative mode, the author part, a comma, a space and the year in
\* parenthetical mode, and the author part alone in both modes when the item
\* yields no year; the parenthetical label is not put in parentheses
C19_YearModeShape ==
    pc = "formatted" =>
       LET author == buildAuthorPart(input.item, getLocaleTerms(input.locale))
           year == buildYearPart(input.item, input.tz)
       IN /\ year = <<>> => output = author
          /\ (year # <<>> /\ input.mode = "narrative") =>
                output = author \o <<" ", "(">> \o year \o <<")">>
          /\ (year # <<>> /\ input.mode = "parenthetical") =>
                /\ output = author \o <<",", " ">> \o year
                /\ ~(output[1] = "(" /\ output[Len(output)] = ")")

\* a parenthetical label with a year has been formatted for Spanish
C19_Witness ==
    /\ pc = "formatted"
    /\ input.mode = "parenthetical"
    /\ input.item = ItemSmithJones
    /\ input.locale = <<"e", "s">>
    /\ output = Smith \o <<" ", "y", " ">> \o Jones \o <<",", " ">> \o Year2020

\* the text is an author part, a comma, a space and four digits
AuthorCommaYear(text) ==
    /\ Len(text) >= 6
    /\ text[Len(text) - 5] = ","
    /\ text[Len(text) - 4] = " "
    /\ \A i \in (Len(text) - 3)..Len(text) : text[i] \in Digits

\* everything before that comma
AuthorBeforeYear(text) == SubSeq(text, 1, Len(text) - 6)

\* C20 as stated: every text that is an author part, a comma, a space and a
\* four-digit year converts from parenthetical to narrative into the author
\* part, a space and the year in parentheses
C20_ParenToNarrAnyAuthor ==
    ( /\ pc = "converted"
      /\ input.fromMode = "parenthetical" /\ input.toMode = "narrative"
      /\ AuthorCommaYear(input.text) ) =>
       output[1] = AuthorBeforeYear(input.text) \o <<" ", "(">>
                      \o LastFour(input.text) \o <<")">>

\* C20 amended: such a text converts that way when its author part is not
\* empty and holds no line break; otherwise the text is returned as it is
C20_ParenToNarr ==
    ( /\ pc = "converted"
      /\ input.fromMode = "parenthetical" /\ input.toMode = "narrative"
      /\ AuthorCommaYear(input.text) ) =>
       IF /\ AuthorBeforeYear(input.text) # <<>>
          /\ \A i \in 1..Len(AuthorBeforeYear(input.text)) :
                input.text[i] \notin LineTerminators
       THEN output[1] = AuthorBeforeYear(input.text) \o <<" ", "(">>
                           \o LastFour(input.text) \o <<")">>
       ELSE output[1] = input.text

\* a label of that shape has been converted to narrative
C20_Witness ==
    /\ pc = "converted"
    /\ input.fromMode = "parenthetical" /\ input.toMode = "narrative"
    /\ input.text = <<"S", ",", " ">> \o Year2020
    /\ output[1] = <<"S", " ", "(">> \o Year2020 \o <<")">>

\* the text is an author part, a space and four digits in parentheses
AuthorSpaceYear(text) ==
    /\ Len(text) >= 7
    /\ text[Len(text) - 6] = " "
    /\ text[Len(text) - 5] = "("
    /\ \A i \in (Len(text) - 4)..(Len(text) - 1) : text[i] \in Digits
    /\ text[Len(text)] = ")"

\* everything before that space
AuthorBeforeParenYear(text) == SubSeq(text, 1, Len(text) - 7)

YearInParens(text) == SubSeq(text, Len(text) - 4, Len(text) - 1)

HasParentheticalPattern(text) ==
    \E a \in 1..Len(text), w \in 0..Len(text) :
       /\ Len(text) = a + 1 + w + 4
       /\ \A i \in 1..a : text[i] \notin LineTerminators
       /\ text[a + 1] = ","
       /\ \A i \in (a + 2)..(a + 1 + w) : text[i] \in WhiteSpace
       /\ \A i \in (a + 2 + w)..Len(text) : text[i] \in Digits

\* the text is some characters without a line break, some white space and
\* four digits in parentheses
HasNarrativePattern(text) ==
    \E a \in 1..Len(text), w \in 1..Len(text) :
       /\ Len(text) = a + w + 6
       /\ \A i \in 1..a : text[i] \notin LineTerminators
       /\ \A i \in (a + 1)..(a + w) : text[i] \in WhiteSpace
       /\ text[a + w + 1] = "("
       /\ \A i \in (a + w + 2)..(a + w + 5) : text[i] \in Digits
       /\ text[Len(text)] = ")"

\* C22: the converter returns the text it was given when the two modes are
\* the same and when the text does not have the pattern of the mode it is
\* converted from; it returns a text for every input
C22_NeverDestructive ==
    pc = "converted" =>
       /\ Len(output) = 1
       /\ input.fromMode = input.toMode => output[1] = input.text
       /\ ( /\ input.fromMode = "parenthetical"
            /\ ~HasParentheticalPattern(input.text) ) => output[1] = input.text
       /\ ( /\ input.fromMode = "narrative"
            /\ ~HasNarrativePattern(input.text) ) => output[1] = input.text

\* a conversion from parenthetical to parenthetical of a text that has the
\* parenthetical pattern has returned
C22_Witness ==
    /\ pc = "converted"
    /\ input.fromMode = "parenthetical" /\ input.toMode = "parenthetical"
    /\ HasParentheticalPattern(input.text)
    /\ output[1] = input.text

\* C23: the serializer writes an opening bracket, the label, "](zotero://",
\* the key and a closing parenthesis, where the label is the text of the
\* record, or its key when the text is empty; two records that differ in
\* title or mode only are written the same
C23_InterchangeSerialization ==
    record # None =>
       /\ output = <<"[">>
                      \o (IF Len(record.text) > 0 THEN record.text ELSE record.key)
                      \o <<"]", "(", "z", "o", "t", "e", "r", "o", ":", "/", "/">>
                      \o record.key \o <<")">>
       /\ \A other \in CitationRecords :
             (other.key = record.key /\ other.text = record.text)
                => toMarkdown(other) = output

\* a narrative record with a title and no text has been serialized
C23_Witness ==
    /\ record # None
    /\ record.text = <<>>
    /\ record.title = <<"T">>
    /\ record.mode = "narrative"
    /\ output = <<"[">> \o record.key \o <<"]", "(">> \o ZoteroScheme
                    \o record.key \o <<")">>

(***************************************************************************)
(* Rendering and DOM parsing of the citation node (part_000)               *)
(***************************************************************************)
\* a test that would take any text beginning with "(" for a wrapped one
WrappedInParensOpenOnly(rawText) == Len(rawText) >= 3 /\ rawText[1] = "("

\* /^\(.+\)$/.test(rawText)
WrappedInParens(rawText) ==
    /\ Len(rawText) >= 3
    /\ rawText[1] = "("
    /\ NoLineBreak(rawText, 2, Len(rawText) - 1)
    /\ rawText[Len(rawText)] = ")"

\* the displayText of toDOM and of the renderer rule
DisplayText(rawText, mode) ==
    IF mode = "parenthetical" /\ WrappedInParens(rawText)
    THEN Slice(rawText, 2, Len(rawText) - 1)
    ELSE rawText

\* an element that would carry no data-mode attribute
toDOMWithoutMode(attrs) ==
    [tag |-> "span", class |-> "citation",
     dataset |-> [key |-> attrs.key, text |-> attrs.text, title |-> attrs.title],
     title |-> IF attrs.title # <<>> THEN attrs.title ELSE Undefined,
     content |-> DisplayText(LabelOf(attrs), attrs.mode)]

\* Citation.schema.toDOM: the span element, its attributes and its content
toDOM(attrs) ==
    [tag |-> "span", class |-> "citation",
     dataset |-> [key |-> attrs.key, text |-> attrs.text, title |-> attrs.title,
                  mode |-> attrs.mode],
     title |-> IF attrs.title # <<>> THEN attrs.title ELSE Undefined,
     content |-> DisplayText(LabelOf(attrs), attrs.mode)]

\* md.renderer.rules.citation for a token that parseCitations built: every
\* attribute is set, so no ?? takes its right-hand side
RenderRule(tok) ==
    [tag |-> "span", class |-> "citation",
     dataset |-> [key |-> tok.key, text |-> tok.text, title |-> tok.title,
                  mode |-> tok.mode],
     content |-> DisplayText(tok.text, tok.mode)]

False == [type |-> "false"]

\* getAttrs of the parseDOM rule span.citation; dataset holds the data-*
\* attributes the element has
getAttrs(dom) ==
    IF "key" \notin DOMAIN dom.dataset \/ dom.dataset.key = <<>>
    THEN False
    ELSE LET text == IF "text" \in DOMAIN dom.dataset THEN dom.dataset.text ELSE <<>>
         IN [key |-> dom.dataset.key,
             text |-> text,
             title |-> IF "title" \in DOMAIN dom.dataset THEN dom.dataset.title
                       ELSE <<>>,
             mode |-> IF "mode" \in DOMAIN dom.dataset THEN dom.dataset.mode
                      ELSE IF NarrativeSuffix(text) THEN "narrative"
                      ELSE "parenthetical"]

\* stored texts: labels of either shape, old-format labels in parentheses,
\* and texts with a parenthesis at one end only
RenderTexts ==
    { <<>>, SmithParen, SmithNarr,
      <<"(">> \o SmithParen \o <<")">>,
      <<"(", "(", "S", ")", ")">>,
      <<"(", "S", ")", " ", "(", "S", ")">>,
      <<"(", "S">>, <<"S", ")">>,
      <<"(", ")">>,
      <<"(", "S", "\n", "S", ")">> }

RenderNodes ==
    [key : {KeyABCD1234, KeyK9}, text : RenderTexts,
     title : {<<>>, <<"T">>}, mode : CitationModes]

\* span.citation elements that toDOM did not make
ForeignElements ==
    { [tag |-> "span", class |-> "citation", dataset |-> ds, content |-> SmithNarr] :
        ds \in { [text |-> SmithNarr, mode |-> "narrative"],
                 [key |-> <<>>, text |-> SmithNarr, title |-> <<>>, mode |-> "narrative"],
                 [key |-> KeyK9],
                 [key |-> KeyK9, text |-> SmithNarr],
                 [key |-> KeyK9, text |-> SmithNarr, mode |-> "parenthetical"] } }

InitDom == pc = "start" /\ HarnessIdle /\ EditorIdle

\* a citation node of the document
PickNode ==
    /\ pc = "start"
    /\ \E attrs \in RenderNodes : record' = attrs
    /\ pc' = "picked"
    /\ UNCHANGED <<children, j, newChildren, input, output>>
    /\ UNCHANGED editorVars

\* the editor renders the node
RenderNode ==
    /\ pc = "picked"
    /\ output' = toDOM(record)
    /\ pc' = "rendered"
    /\ UNCHANGED <<children, j, newChildren, record, input>>
    /\ UNCHANGED editorVars

\* markdown-it renders the citation token of a link with this text
RenderToken ==
    /\ pc = "picked"
    /\ record.text # <<>>
    /\ input' = CitationToken(record.key, record.text)
    /\ output' = RenderRule(CitationToken(record.key, record.text))
    /\ pc' = "html"
    /\ UNCHANGED <<children, j, newChildren, record>>
    /\ UNCHANGED editorVars

\* an element from elsewhere reaches the parser (paste)
PickElement ==
    /\ pc = "start"
    /\ \E dom \in ForeignElements : output' = dom
    /\ pc' = "pasted"
    /\ UNCHANGED <<children, j, newChildren, record, input>>
    /\ UNCHANGED editorVars

\* the DOM parser applies the rule to the element
ParseElement ==
    /\ pc \in {"rendered", "pasted"}
    /\ lastOp' = [type |-> "getAttrs", result |-> getAttrs(output)]
    /\ pc' = "parsed"
    /\ UNCHANGED <<doc, sel, extState, inflight, origin>>
    /\ UNCHANGED harnessVars

NextDom == PickNode \/ RenderNode \/ RenderToken \/ PickElement \/ ParseElement

SpecDom == InitDom /\ [][NextDom]_vars

\* the text or, when it is empty, the key of what was rendered
RenderedLabel ==
    IF pc = "html" THEN input.text
    ELSE IF Len(record.text) > 0 THEN record.text ELSE record.key

RenderedMode == IF pc = "html" THEN input.mode ELSE record.mode

\* C24 as stated: the display text is the label without its first and last
\* character when the mode is parenthetical and the label begins with "(" and
\* ends with ")", and the label itself otherwise; the stored text goes into
\* data-text as it is
C24_DisplayTextAnyWrapped ==
    pc \in {"rendered", "html"} =>
       LET raw == RenderedLabel IN
       /\ output.content =
             IF /\ RenderedMode = "parenthetical"
                /\ Len(raw) >= 2 /\ raw[1] = "(" /\ raw[Len(raw)] = ")"
             THEN SubSeq(raw, 2, Len(raw) - 1)
             ELSE raw
       /\ output.dataset.text = (IF pc = "html" THEN input.text ELSE record.text)

\* C24 amended: the parentheses are removed only when at least one character
\* stands between them and none of the characters between them is a line
\* break; one layer is removed, whatever is inside
C24_DisplayText ==
    pc \in {"rendered", "html"} =>
       LET raw == RenderedLabel IN
       /\ output.content =
             IF /\ RenderedMode = "parenthetical"
                /\ Len(raw) >= 3 /\ raw[1] = "(" /\ raw[Len(raw)] = ")"
                /\ \A i \in 2..(Len(raw) - 1) : raw[i] \notin LineTerminators
             THEN SubSeq(raw, 2, Len(raw) - 1)
             ELSE raw
       /\ output.dataset.text = (IF pc = "html" THEN input.text ELSE record.text)

\* a parenthetical node whose text is wrapped twice has been rendered with
\* one layer removed
C24_Witness ==
    /\ pc = "rendered"
    /\ record.mode = "parenthetical"
    /\ record.text = <<"(", "(", "S", ")", ")">>
    /\ output.content = <<"(", "S", ")">>
    /\ output.dataset.text = record.text

\* C28: parsing the element that toDOM made of a node gives the node's key,
\* text, title and mode again, the mode being the element's data-mode
\* whatever the text looks like; an element without a data-key, or with an
\* empty one, is rejected
C28_DomRoundTrip ==
    pc = "parsed" =>
       /\ record # None =>
             /\ lastOp.result.key = record.key
             /\ lastOp.result.text = record.text
             /\ lastOp.result.title = record.title
             /\ lastOp.result.mode = record.mode
             /\ DOMAIN lastOp.result = {"key", "text", "title", "mode"}
       /\ ("mode" \in DOMAIN output.dataset /\ lastOp.result # False) =>
             lastOp.result.mode = output.dataset.mode
       /\ ("key" \notin DOMAIN output.dataset) => lastOp.result = False
       /\ ("key" \in DOMAIN output.dataset /\ output.dataset.key = <<>>) =>
             lastOp.result = False

\* a parenthetical node whose text ends like a narrative label has gone
\* through toDOM and the parse rule
C28_Witness ==
    /\ pc = "parsed"
    /\ record # None
    /\ record.text = SmithNarr
    /\ record.mode = "parenthetical"
    /\ record.title = <<"T">>
    /\ lastOp.result = record

(***************************************************************************)
(* Server proxy: zotero.search and zotero.bibliography (part_002)          *)
(***************************************************************************)
\* z.array(...).max(50)
MaxKeys == 50

\* the most items in an answer of the upstream API
MaxUpstreamItems == 3

KeyA == <<"A">>
KeyB == <<"B">>
KeyX == <<"X">>

\* a schema that would take any keys array
SchemaValidAnyKeys(req) ==
    IF req.endpoint = "zotero.search"
    THEN "q" \in DOMAIN req.params /\ Len(req.params.q) >= 1
    ELSE "keys" \in DOMAIN req.params

\* validate(T.ZoteroSearchSchema) / validate(T.ZoteroBibliographySchema):
\* whether the query or the body parses
SchemaValid(req) ==
    IF req.endpoint = "zotero.search"
    THEN /\ "q" \in DOMAIN req.params
         /\ Len(req.params.q) >= 1
         /\ "limit" \in DOMAIN req.params =>
               (req.params.limit >= 1 /\ req.params.limit <= 100)
    ELSE /\ "keys" \in DOMAIN req.params
         /\ Len(req.params.keys) >= 1
         /\ Len(req.params.keys) <= MaxKeys
         /\ \A i \in 1..Len(req.params.keys) : Len(req.params.keys[i]) >= 1

\* the check of requireZoteroSettings on the integration row of the user
SettingsComplete(integration) ==
    /\ integration # None
    /\ integration.url # <<>>
    /\ integration.apiKey # <<>>
    /\ integration.userId # <<>>

\* keyOrder.get(key) ?? 0, for keyOrder = new Map(keys.map((k, i) => [k, i])):
\* a key that occurs twice keeps its last index
KeyRank(keys, key) ==
    IF \E i \in 1..Len(keys) : keys[i] = key
    THEN (CHOOSE i \in 1..Len(keys) :
             keys[i] = key /\ \A m \in (i + 1)..Len(keys) : keys[m] # key) - 1
    ELSE 0

RECURSIVE InsertByRank(_, _, _)
InsertByRank(sorted, item, keys) ==
    IF sorted = <<>> THEN <<item>>
    ELSE IF KeyRank(keys, item.key) - KeyRank(keys, Head(sorted).key) < 0
    THEN <<item>> \o sorted
    ELSE <<Head(sorted)>> \o InsertByRank(Tail(sorted), item, keys)

\* an answer that would keep the order of the upstream items
KeepUpstreamOrder(rawItems, keys) == rawItems

RECURSIVE SortByKeyOrder(_, _)
\* [...rawItems].sort(by keyOrder): the sort is stable
SortByKeyOrder(rawItems, keys) ==
    IF rawItems = <<>> THEN <<>>
    ELSE InsertByRank(SortByKeyOrder(Slice(rawItems, 1, Len(rawItems) - 1), keys),
                      rawItems[Len(rawItems)], keys)

\* formatBibEntry(data): the paragraph of one item, here by its title
formatBibEntry(data) == <<"<", "p", ">">> \o data.title \o <<"<", "/", "p", ">">>

\* the html of the answer: the entries in the order of sorted
BibliographyEntries(rawItems, keys) ==
    LET sorted == SortByKeyOrder(rawItems, keys)
    IN [i \in 1..Len(sorted) |-> formatBibEntry(sorted[i].data)]

\* an item of the upstream library; its title names its key
UpstreamItem(key) == [key |-> key, data |-> [title |-> <<"T", "-">> \o key]]

UpstreamAnswers ==
    UNION {[1..n -> {UpstreamItem(KeyA), UpstreamItem(KeyB), UpstreamItem(KeyX)}] :
              n \in 0..MaxUpstreamItems}

CompleteIntegration ==
    [url |-> <<"u">>, apiKey |-> <<"k">>, userId |-> <<"1">>]

\* no integration row, one without an API key, a complete one
Integrations ==
    {None, [CompleteIntegration EXCEPT !.apiKey = <<>>], CompleteIntegration}

SearchParams ==
    { [style |-> "apa"], [q |-> <<>>], [q |-> <<"d">>],
      [q |-> <<"d">>, limit |-> 0], [q |-> <<"d">>, limit |-> 100],
      [q |-> <<"d">>, limit |-> 101] }

BibliographyParams ==
    { [style |-> "apa"], [keys |-> <<>>], [keys |-> <<KeyA>>],
      [keys |-> <<KeyA, KeyB>>], [keys |-> <<KeyB, KeyA>>],
      [keys |-> <<KeyA, <<>>>>],
      [keys |-> [i \in 1..MaxKeys |-> KeyA]],
      [keys |-> [i \in 1..(MaxKeys + 1) |-> KeyA]] }

ServerRequests ==
    [endpoint : {"zotero.search"}, authenticated : BOOLEAN,
     integration : Integrations, params : SearchParams]
      \cup
    [endpoint : {"zotero.bibliography"}, authenticated : BOOLEAN,
     integration : Integrations, params : BibliographyParams]

InitServer == pc = "start" /\ HarnessIdle /\ EditorIdle

\* a request arrives at the router
ReceiveRequest ==
    /\ pc = "start"
    /\ \E req \in ServerRequests : input' = req
    /\ pc' = "auth"
    /\ UNCHANGED <<children, j, newChildren, record, output>>
    /\ UNCHANGED editorVars

\* auth(): a request without a valid token is answered 401
Authenticate ==
    /\ pc = "auth"
    /\ IF input.authenticated
       THEN pc' = "validate" /\ output' = output
       ELSE pc' = "done" /\ output' = [status |-> 401]
    /\ UNCHANGED <<children, j, newChildren, record, input>>
    /\ UNCHANGED editorVars

\* validate(schema): input that does not parse is answered 400
Validate ==
    /\ pc = "validate"
    /\ IF SchemaValid(input)
       THEN pc' = "handler" /\ output' = output
       ELSE pc' = "done" /\ output' = [status |-> 400]
    /\ UNCHANGED <<children, j, newChildren, record, input>>
    /\ UNCHANGED editorVars

\* the handler up to its fetch: requireZoteroSettings throws NotFoundError,
\* or the upstream API is called
CallUpstream ==
    /\ pc = "handler"
    /\ IF SettingsComplete(input.integration)
       THEN /\ pc' = "upstream"
            /\ output' = output
            /\ record' = [type |-> "fetch",
                           apiKey |-> input.integration.apiKey,
                           params |-> input.params]
       ELSE /\ pc' = "done"
            /\ output' = [status |-> 404]
            /\ record' = record
    /\ UNCHANGED <<children, j, newChildren, input>>
    /\ UNCHANGED editorVars

\* the upstream API answers with a status that is not ok
UpstreamFails ==
    /\ pc = "upstream"
    /\ output' = [status |-> 400]
    /\ pc' = "done"
    /\ UNCHANGED <<children, j, newChildren, record, input>>
    /\ UNCHANGED editorVars

\* the upstream API answers with items, in an order of its own
UpstreamAnswers200 ==
    /\ pc = "upstream"
    /\ \E rawItems \in UpstreamAnswers :
          /\ children' = rawItems
          /\ output' =
                IF input.endpoint = "zotero.search"
                THEN [status |-> 200,
                      data |-> [i \in 1..Len(rawItems) |-> rawItems[i].key]]
                ELSE [status |-> 200,
                      data |-> BibliographyEntries(rawItems, input.params.keys)]
    /\ pc' = "done"
    /\ UNCHANGED <<j, newChildren, record, input>>
    /\ UNCHANGED editorVars

NextServer ==
    \/ ReceiveRequest \/ Authenticate \/ Validate \/ CallUpstream
    \/ UpstreamFails \/ UpstreamAnswers200

SpecServer == InitServer /\ [][NextServer]_vars

\* the input errors the claim names: q missing; keys missing, empty or more
\* than fifty
NamedInputError(req) ==
    IF req.endpoint = "zotero.search"
    THEN "q" \notin DOMAIN req.params
    ELSE \/ "keys" \notin DOMAIN req.params
         \/ Len(req.params.keys) = 0
         \/ Len(req.params.keys) > 50

\* input that the schema of the endpoint accepts
AcceptedInput(req) ==
    IF req.endpoint = "zotero.search"
    THEN /\ "q" \in DOMAIN req.params /\ req.params.q # <<>>
         /\ "limit" \in DOMAIN req.params => req.params.limit \in 1..100
    ELSE /\ "keys" \in DOMAIN req.params
         /\ Len(req.params.keys) \in 1..50
         /\ \A i \in 1..Len(req.params.keys) : req.params.keys[i] # <<>>

\* C25: on both endpoints a request without authentication is answered 401
\* whatever its input; an authenticated request whose input is invalid is
\* answered 400 whatever integration the user has; an authenticated request
\* with valid input of a user without a complete integration is answered
\* 404; and in none of these cases was the upstream API called
C25_ErrorPrecedence ==
    pc = "done" =>
       /\ ~input.authenticated =>
             output.status = 401 /\ record = None
       /\ (input.authenticated /\ NamedInputError(input)) =>
             output.status = 400 /\ record = None
       /\ (input.authenticated /\ ~AcceptedInput(input)) =>
             output.status = 400 /\ record = None
       /\ ( /\ input.authenticated /\ AcceptedInput(input)
            /\ \/ input.integration = None
               \/ input.integration.apiKey = <<>> ) =>
             output.status = 404 /\ record = None

\* an authenticated user with a complete integration has asked for a
\* bibliography of fifty-one keys and got 400 without an upstream call
C25_Witness ==
    /\ pc = "done"
    /\ input.endpoint = "zotero.bibliography"
    /\ input.authenticated
    /\ input.integration = CompleteIntegration
    /\ "keys" \in DOMAIN input.params
    /\ Len(input.params.keys) = 51
    /\ output.status = 400
    /\ record = None

\* the key of the item an entry of the answer was made of
EntryKey(entry) == SubSeq(entry, 6, Len(entry) - 4)

\* C26: every upstream item has its entry in the answer, and of two entries
\* whose keys were requested the one whose key comes earlier in the request
\* stands first, whatever the upstream order and whether or not the upstream
\* answer holds items that were not requested
C26_RequestOrder ==
    ( /\ pc = "done"
      /\ input.endpoint = "zotero.bibliography"
      /\ output.status = 200 ) =>
       LET keys == input.params.keys
           entries == output.data
           requested(k) == \E p \in 1..Len(keys) : keys[p] = k
       IN /\ Len(entries) = Len(children)
          /\ \A k \in {KeyA, KeyB, KeyX} :
                Cardinality({i \in 1..Len(entries) : EntryKey(entries[i]) = k})
                   = Cardinality({i \in 1..Len(children) : children[i].key = k})
          /\ \A i \in 1..Len(entries), m \in 1..Len(entries) :
                ( /\ i < m
                  /\ requested(EntryKey(entries[i]))
                  /\ requested(EntryKey(entries[m])) ) =>
                   \E p \in 1..Len(keys), q \in 1..Len(keys) :
                      /\ p <= q
                      /\ keys[p] = EntryKey(entries[i])
                      /\ keys[q] = EntryKey(entries[m])

\* keys B, A were requested and the upstream API answered A, X, B
C26_Witness ==
    /\ pc = "done"
    /\ input.endpoint = "zotero.bibliography"
    /\ output.status = 200
    /\ input.params.keys = <<KeyB, KeyA>>
    /\ children = <<UpstreamItem(KeyA), UpstreamItem(KeyX), UpstreamItem(KeyB)>>
    /\ EntryKey(output.data[2]) = KeyB
    /\ EntryKey(output.data[3]) = KeyA

(***************************************************************************)
(* A label of the dialog through the markdown serializer and the tokenizer *)
(***************************************************************************)
InitLabelTrip == pc = "start" /\ HarnessIdle /\ EditorIdle

\* the citation handleConfirm builds from the formatted label becomes a node
\* (insertCitationNodes), the node is written by toMarkdown and the markdown
\* is read back into an inline token stream
SerializeLabel ==
    /\ pc = "formatted"
    /\ LET attrs == [key |-> input.item.key,
                     text |-> output,
                     title |-> Coalesce(input.item.title, <<>>),
                     mode |-> input.mode]
       IN /\ record' = attrs
          /\ children' = MdInlineLink(toMarkdown(attrs))
    /\ j' = 0
    /\ newChildren' = <<>>
    /\ pc' = "tokenizing"
    /\ UNCHANGED <<input, output>>
    /\ UNCHANGED editorVars

NextLabelTrip == FormatLabel \/ SerializeLabel \/ ParseStep \/ ParseFinish

SpecLabelTrip == InitLabelTrip /\ [][NextLabelTrip]_vars

FourDigitYear(year) == Len(year) = 4 /\ AllIn(year, 1, 4, Digits)

\* C27: a label formatted with a four-digit year comes back from the
\* serializer and the tokenizer as one citation token with the key, the
\* label and the mode of the record; a label formatted without a year comes
\* back as a parenthetical citation whatever the mode of the record
C27_ModeSurvivesMarkdown ==
    pc = "tokenized" =>
       LET year == buildYearPart(input.item, input.tz) IN
       /\ FourDigitYear(year) =>
             children = <<[type |-> "citation", key |-> record.key,
                           text |-> record.text, title |-> <<>>,
                           mode |-> record.mode]>>
       /\ year = <<>> =>
             /\ Len(children) = 1
             /\ children[1].type = "citation"
             /\ children[1].text = record.text
             /\ children[1].mode = "parenthetical"

\* the narrative label "Smith (2020)" was written, read back and tokenized
C27_Witness ==
    /\ pc = "tokenized"
    /\ input.item = ItemSmith
    /\ input.mode = "narrative"
    /\ record.text = Smith \o <<" ", "(">> \o Year2020 \o <<")">>
    /\ children[1].mode = "narrative"

(***************************************************************************)
(* Specification of the bibliography commands over documents with several  *)
(* citations: the commands are run, with the cursor anywhere, and answered *)
(***************************************************************************)
CiteA(mode) ==
    CitationNode([key |-> KeyA, text |-> SmithParen, title |-> <<"T">>, mode |-> mode])
CiteB == CitationNode([key |-> KeyB, text |-> <<>>, title |-> <<>>,
                       mode |-> "parenthetical"])

\* documents the editor is opened with: a key cited three times around
\* another, citations inside a block quote before and after the same keys in a
\* paragraph, citations inside a bibliography block only, and no citation
\* with and without a bibliography block
CollectDocs ==
    { Doc(<<Paragraph(<<CiteA("parenthetical"), CiteB, CiteA("narrative"),
                        CiteA("parenthetical")>>)>>),
      Doc(<<Blockquote(<<Paragraph(<<CiteB>>)>>),
            Paragraph(<<CiteA("narrative"), CiteB>>)>>),
      Doc(<<Paragraph(<<>>),
            BibliographyNode("apa", EnUS, <<Paragraph(<<CiteB, CiteA("narrative"), CiteB>>)>>)>>),
      Doc(<<Paragraph(<<TextNode("a")>>),
            BibliographyNode("apa", EnUS, <<Paragraph(<<TextNode("a")>>)>>)>>),
      Doc(<<Paragraph(<<>>)>>) }

InitCollect ==
    /\ pc = "editing" /\ HarnessIdle
    /\ doc \in CollectDocs
    /\ sel \in CursorPositions(doc)
    /\ extState = [style |-> "apa", locale |-> EnUS]
    /\ inflight = EmptyBag
    /\ lastOp = None
    /\ origin = <<>>

NextCollect ==
    \/ insertBibliography \/ handleRefresh
    \/ RespondSuccess \/ RespondFailure

SpecCollect == InitCollect /\ [][NextCollect]_vars

\* the keys of the citation nodes of a document, in document order
CitedKeys(d) == [i \in 1..Len(CitationsIn(d)) |-> CitationsIn(d)[i].node.attrs.key]

\* the place of the first citation of a key among the citations of a document
FirstCitationOf(d, key) ==
    CHOOSE i \in 1..Len(CitedKeys(d)) :
       /\ CitedKeys(d)[i] = key
       /\ \A k \in 1..(i - 1) : CitedKeys(d)[k] # key

\* the requests a step sends
SentRequests ==
    {r \in BagToSet(inflight') : CopiesIn(r, inflight') > CopiesIn(r, inflight)}

\* C29: the keys of a request sent by a step are the keys of the citations
\* of the document before the step, each once, in the order of their first
\* citation; a bibliography command leaves document and selection alone,
\* and it sends a request exactly when the document holds a citation
C29_KeysOnceInOrder ==
    [][ /\ \A r \in SentRequests :
              LET keys == r.html.keys IN
              /\ {keys[i] : i \in 1..Len(keys)}
                    = {CitedKeys(doc)[i] : i \in 1..Len(CitedKeys(doc))}
              /\ \A a \in 1..Len(keys), b \in 1..Len(keys) :
                    a < b => FirstCitationOf(doc, keys[a]) < FirstCitationOf(doc, keys[b])
        /\ (insertBibliography \/ handleRefresh) =>
              /\ doc' = doc
              /\ sel' = sel
              /\ IF CitationsIn(doc) = <<>>
                 THEN inflight' = inflight
                 ELSE Cardinality(SentRequests) = 1 ]_vars

\* a request with the keys A, B is pending, sent for a document that cited
\* B, A, B inside its bibliography block; the block has been replaced since
\* and a command run on the document, now without a citation, sent nothing
C29_Witness ==
    /\ lastOp.type = "fetchAndInsertBibliography"
    /\ CitationsIn(doc) = <<>>
    /\ findBibliographyRange(doc) # None
    /\ \E r \in BagToSet(inflight) : r.html.keys = <<KeyB, KeyA>>

(***************************************************************************)
(* Specification of the citation search dialog.  record holds the React    *)
(* state of the component, extState the open flag of the extension, doc    *)
(* and sel the editor, origin the locale prop and the browser's time zone. *)
(***************************************************************************)
\* the most chips the dialog holds, and the most citations the document takes
MaxSelected == 2

\* an item of a later search with the key of ItemSmith and other data
ItemSmithRevised == Item(KeyABCD1234, <<Author(Jones)>>, Year2020)

\* answers of zotero.search
SearchResults ==
    { <<ItemSmith, ItemOrtega>>,
      <<ItemSmithRevised, ItemEditor, ItemEditor>> }

\* values of the input field: empty, blank, and a word
Queries == {<<>>, <<" ">>, <<"q">>}

\* !query.trim()
IsBlank(q) == \A i \in 1..Len(q) : q[i] \in WhiteSpace

\* query.trim().length > 0
dropdownOpen == ~IsBlank(record.query)

InitDialog ==
    /\ pc = "editing"
    /\ children = <<>> /\ j = 0 /\ newChildren = <<>>
    /\ input = <<>> /\ output = <<>>
    /\ record = [query |-> <<>>, results |-> <<>>, selected |-> <<>>,
                 highlightIndex |-> 0, mode |-> "parenthetical", pending |-> 0]
    /\ extState = [open |-> FALSE]
    /\ doc = Doc(<<Paragraph(<<TextNode("x"), TextNode("y")>>)>>)
    /\ sel = 2
    /\ origin = [locale |-> HuHU, tz |-> "east"]
    /\ inflight = EmptyBag /\ lastOp = None

dialogUnchanged == <<pc, children, j, newChildren, input, output, inflight, origin>>

\* a selection that would take an item again whatever it holds
addedAgain(prev, item) == Append(prev, item)

\* the updater of addItem's setSelected
added(prev, item) ==
    IF \E i \in 1..Len(prev) : prev[i].key = item.key THEN prev
    ELSE Append(prev, item)

\* the updater of removeItem's setSelected
removed(prev, key) == SelectSeq(prev, LAMBDA i : i.key # key)

\* addItem(item): the selection, then setQuery("") and setResults([])
addItem(item) ==
    /\ Len(added(record.selected, item)) <= MaxSelected
    /\ record' = [record EXCEPT !.selected = added(@, item),
                                !.query = <<>>, !.results = <<>>]
    /\ lastOp' = None
    /\ UNCHANGED <<doc, sel, extState>>

\* removeItem(key)
removeItem(key) ==
    /\ record' = [record EXCEPT !.selected = removed(@, key)]
    /\ lastOp' = None
    /\ UNCHANGED <<doc, sel, extState>>

\* handleConfirm(), and the onSelect of the widget: the dialog closes and
\* insertCitationNodes puts the citations at the cursor
handleConfirm ==
    LET items == ConfirmedCitations(record.selected, record.mode,
                                    origin.locale, origin.tz)
        nodes == CitationNodes(items)
    IN /\ Len(CitationsIn(doc)) + Len(record.selected) <= MaxSelected
       /\ IF Len(record.selected) = 0
          THEN UNCHANGED <<doc, sel, extState>>
          ELSE /\ extState' = [extState EXCEPT !.open = FALSE]
               /\ doc' = Doc(InsertInlineAt(doc.content, 0, sel, nodes))
               /\ sel' = sel + Len(nodes)
       /\ lastOp' = [type |-> "handleConfirm"]
       /\ UNCHANGED record

\* the insertCitation command, and the effect on isOpen that resets the
\* dialog when it opens; the mode is kept
insertCitation ==
    /\ pc = "editing"
    /\ extState' = [extState EXCEPT !.open = TRUE]
    /\ record' = IF extState.open THEN record
                 ELSE [record EXCEPT !.query = <<>>, !.results = <<>>,
                                     !.selected = <<>>, !.highlightIndex = 0]
    /\ lastOp' = None
    /\ UNCHANGED <<doc, sel>>
    /\ UNCHANGED dialogUnchanged

\* the user edits the input field: setQuery, and the effect on query that
\* empties the results for a blank query and schedules a search otherwise
onChange ==
    /\ pc = "editing" /\ extState.open
    /\ \E q \in Queries :
          /\ q # record.query
          /\ record' = [record EXCEPT !.query = q,
                                      !.results = IF IsBlank(q) THEN <<>> ELSE @,
                                      !.pending = IF IsBlank(q) THEN @ ELSE 1]
    /\ lastOp' = None
    /\ UNCHANGED <<doc, sel, extState>>
    /\ UNCHANGED dialogUnchanged

\* performSearch comes back, with an answer or with an error
performSearch ==
    /\ pc = "editing"
    /\ record.pending = 1
    /\ \/ \E data \in SearchResults :
             record' = [record EXCEPT !.results = data, !.highlightIndex = 0,
                                      !.pending = 0]
       \/ record' = [record EXCEPT !.results = <<>>, !.pending = 0]
    /\ lastOp' = None
    /\ UNCHANGED <<doc, sel, extState>>
    /\ UNCHANGED dialogUnchanged

\* handleKeyDown(e) for the keys it names
handleKeyDown ==
    /\ pc = "editing" /\ extState.open
    /\ \E key \in {"ArrowDown", "ArrowUp", "Enter", "Backspace", "Escape"} :
          LET i == record.highlightIndex
              last == Len(record.results) - 1
              highlighted == i >= 0 /\ i + 1 <= Len(record.results)
          IN CASE key = "ArrowDown" ->
                    /\ record' = [record EXCEPT
                                     !.highlightIndex = IF i + 1 < last THEN i + 1 ELSE last]
                    /\ lastOp' = None
                    /\ UNCHANGED <<doc, sel, extState>>
               [] key = "ArrowUp" ->
                    /\ record' = [record EXCEPT
                                     !.highlightIndex = IF i - 1 > 0 THEN i - 1 ELSE 0]
                    /\ lastOp' = None
                    /\ UNCHANGED <<doc, sel, extState>>
               [] key = "Enter" ->
                    IF dropdownOpen /\ highlighted
                    THEN addItem(record.results[i + 1])
                    ELSE IF ~dropdownOpen THEN handleConfirm
                    ELSE /\ lastOp' = None
                         /\ UNCHANGED <<record, doc, sel, extState>>
               [] key = "Backspace" ->
                    IF record.query = <<>> /\ Len(record.selected) > 0
                    THEN removeItem(record.selected[Len(record.selected)].key)
                    ELSE /\ lastOp' = None
                         /\ UNCHANGED <<record, doc, sel, extState>>
               [] key = "Escape" ->
                    /\ IF dropdownOpen
                       THEN /\ record' = [record EXCEPT !.query = <<>>, !.results = <<>>]
                            /\ UNCHANGED extState
                       ELSE /\ extState' = [extState EXCEPT !.open = FALSE]
                            /\ UNCHANGED record
                    /\ lastOp' = None
                    /\ UNCHANGED <<doc, sel>>
    /\ UNCHANGED dialogUnchanged

\* onMouseDown on a row of the dropdown
clickResult ==
    /\ pc = "editing" /\ extState.open
    /\ dropdownOpen
    /\ \E index \in 1..Len(record.results) :
          LET item == record.results[index]
              alreadySelected == \E k \in 1..Len(record.selected) :
                                    record.selected[k].key = item.key
          IN IF ~alreadySelected THEN addItem(item) ELSE removeItem(item.key)
    /\ UNCHANGED dialogUnchanged

\* onClick on the remove button of a chip
clickChipRemove ==
    /\ pc = "editing" /\ extState.open
    /\ \E k \in 1..Len(record.selected) : removeItem(record.selected[k].key)
    /\ UNCHANGED dialogUnchanged

\* onClick on a mode button
setMode ==
    /\ pc = "editing" /\ extState.open
    /\ \E m \in CitationModes :
          /\ m # record.mode
          /\ record' = [record EXCEPT !.mode = m]
    /\ lastOp' = None
    /\ UNCHANGED <<doc, sel, extState>>
    /\ UNCHANGED dialogUnchanged

\* onClick on the Insert button, disabled while nothing is selected
clickInsert ==
    /\ pc = "editing" /\ extState.open
    /\ Len(record.selected) > 0
    /\ handleConfirm
    /\ UNCHANGED dialogUnchanged

NextDialog ==
    \/ insertCitation \/ onChange \/ performSearch \/ handleKeyDown
    \/ clickResult \/ clickChipRemove \/ setMode \/ clickInsert

SpecDialog == InitDialog /\ [][NextDialog]_vars
\* the inline nodes of the paragraph the cursor is in
Inline(d) == d.content[1].content

\* C30: the selection never holds two items with the same key; and a
\* confirmation puts, at the cursor, one citation for each selected item and
\* nothing else, ordered by the first author's last name, each with the
\* dialog's mode and the label formatted in that mode, and it leaves the
\* document and the selection of the editor alone when nothing is selected
C30_SelectionAndConfirm ==
    /\ [](\A a, b \in 1..Len(record.selected) :
             a # b => record.selected[a].key # record.selected[b].key)
    /\ [][ lastOp'.type = "handleConfirm" =>
             LET selected == record.selected
                 n == Len(selected)
                 inserted == [i \in 1..n |-> Inline(doc')[sel - 1 + i]]
                 itemOf(node) == CHOOSE k \in 1..n : selected[k].key = node.attrs.key
             IN /\ Len(Inline(doc')) = Len(Inline(doc)) + n
                /\ \A i \in 1..(sel - 1) : Inline(doc')[i] = Inline(doc)[i]
                /\ \A i \in sel..Len(Inline(doc)) : Inline(doc')[i + n] = Inline(doc)[i]
                /\ \A k \in 1..n :
                      Cardinality({i \in 1..n :
                                     inserted[i].attrs.key = selected[k].key}) = 1
                /\ \A i \in 1..n :
                      /\ inserted[i].type = "citation"
                      /\ inserted[i].attrs.mode = record.mode
                      /\ inserted[i].attrs.text
                            = formatCitationLabel(selected[itemOf(inserted[i])],
                                                  record.mode, origin.locale, origin.tz)
                /\ \A a, b \in 1..n :
                      a < b =>
                         localeCompare(
                            firstAuthorLastName(selected[itemOf(inserted[a])]),
                            firstAuthorLastName(selected[itemOf(inserted[b])])) <= 0
                /\ n = 0 => doc' = doc /\ sel' = sel ]_vars

\* Smith was selected before Ortega y Gasset in narrative mode, a selected
\* item was offered again by a later search, and the confirmation put the
\* citation of Ortega y Gasset before that of Smith
C30_Witness ==
    /\ lastOp.type = "handleConfirm"
    /\ record.selected = <<ItemSmith, ItemOrtega>>
    /\ record.mode = "narrative"
    /\ Len(CitationsIn(doc)) = 2
    /\ CitationsIn(doc)[1].node.attrs.key = ItemOrtega.key
    /\ CitationsIn(doc)[2].node.attrs.key = ItemSmith.key
    /\ CitationsIn(doc)[2].node.attrs.mode = "narrative"

====
